---- MODULE Spec2Model ----
(***************************************************************************)
(* Model of the monarch-butterfly data-preparation pipelines:              *)
(*   data_prep_dynamic_windows.py  (script "dynamic")                      *)
(*   data_prep_daily_lag.py        (script "daily")                        *)
(*   data_prep_lag.py              (script "lag")                          *)
(*                                                                         *)
(* Timestamps are whole seconds counted from 2023-11-17 00:00:00, so a     *)
(* date is a day number (0 = 2023-11-17).  Counts are whole numbers (the   *)
(* labels of the classification files parse to whole numbers).  Ratios     *)
(* are kept exact as <<numerator, denominator>>; the cube root of the      *)
(* completeness score is rounded down to hundredths.                       *)
(***************************************************************************)
EXTENDS Integers, Sequences, FiniteSets, TLC

VARIABLES
    script,           \* which script's main() is running
    args,             \* parsed command line: <<min_photos, max_photos>>
    json_dir,         \* the classification files: deployment-day |-> profile
    pc,               \* position of main()
    deployments_file, \* content of the deployments CSV ("unread" before it is read)
    temp_file,        \* content of the temperature CSV ("unread" before)
    wind_db_dir,      \* content of the wind database directory ("unread" before)
    butterfly_df,     \* observations; after the temperature join, with temperature
    temp_24hr_df,     \* the 24/7 temperature series (dynamic script)
    daily_df,         \* daily aggregates
    valid_days,       \* daily aggregates that passed the photo-count filter
    lag_df,           \* lag pairs: 24hr pass (dynamic), daily pairs, 30-minute pairs
    lag_df_sunset,    \* lag pairs of the sunset pass (dynamic)
    written,          \* the CSV files written so far
    error,            \* "none", or the call that raised
    exit_code,        \* process exit code, -1 while running
    connections,      \* the sqlite3 connections open while wind queries are made one by
                      \* one (the steps of main() are whole handlers and leave it alone)
    arg,              \* a function called on its own: its name and arguments
    ret               \* what that call returned

vars == <<script, args, json_dir, pc, deployments_file, temp_file, wind_db_dir,
          butterfly_df, temp_24hr_df, daily_df, valid_days, lag_df,
          lag_df_sunset, written, error, exit_code, connections, arg, ret>>

----------------------------------------------------------------------------
(* Bounds of the model *)

\* number of calendar days a deployment can have classification data for
MaxDays == 3

\* number of non-empty deployment-days in the classification files
MaxDayFiles == 2

\* length of the count labels tried on the Count Parser
MaxLabelLen == 4

----------------------------------------------------------------------------
(* Time *)

SecondsPerDay == 24 * 3600

At(day, h, m, s) == day * SecondsPerDay + h * 3600 + m * 60 + s

\* timestamp.date()
DateOf(ts) == ts \div SecondsPerDay

\* timestamp.minute
MinuteOf(ts) == (ts % 3600) \div 60

\* timedelta(hours=24)
Hours24 == 24 * 3600

----------------------------------------------------------------------------
(* Generic helpers on sequences and sets *)

RECURSIVE SumSeq(_)
SumSeq(s) == IF s = <<>> THEN 0 ELSE Head(s) + SumSeq(Tail(s))

SeqToSet(s) == {s[i] : i \in 1..Len(s)}

Max(S) == CHOOSE x \in S : \A y \in S : y <= x
Min(S) == CHOOSE x \in S : \A y \in S : x <= y

Abs(x) == IF x < 0 THEN 0 - x ELSE x

RECURSIVE Gcd(_, _)
Gcd(a, b) == IF b = 0 THEN a ELSE Gcd(b, a % b)

\* rows of the set S as a sequence in ascending order of key[row]
RECURSIVE SortByKey(_, _)
SortByKey(S, key) ==
    IF S = {} THEN <<>>
    ELSE LET m == CHOOSE x \in S : \A y \in S : key[x] <= key[y]
         IN  <<m>> \o SortByKey(S \ {m}, key)

----------------------------------------------------------------------------
(* Count Parser: labels are sequences of characters *)

Digits == {"0", "1", "2", "3", "4", "5", "6", "7", "8", "9"}

DigitVal(c) ==
    CASE c = "0" -> 0 [] c = "1" -> 1 [] c = "2" -> 2 [] c = "3" -> 3
      [] c = "4" -> 4 [] c = "5" -> 5 [] c = "6" -> 6 [] c = "7" -> 7
      [] c = "8" -> 8 [] c = "9" -> 9

\* \d+
IsDigits(s) == Len(s) >= 1 /\ \A i \in 1..Len(s) : s[i] \in Digits

RECURSIVE ToInt(_)
ToInt(s) ==
    IF s = <<>> THEN 0
    ELSE ToInt(SubSeq(s, 1, Len(s) - 1)) * 10 + DigitVal(s[Len(s)])

\* str.strip()
RECURSIVE Strip(_)
Strip(s) ==
    IF s = <<>> THEN s
    ELSE IF Head(s) = " " THEN Strip(Tail(s))
    ELSE IF s[Len(s)] = " " THEN Strip(SubSeq(s, 1, Len(s) - 1))
    ELSE s

COUNT_MAPPING ==
    (<<"0">> :> 0) @@ (<<"1", "-", "9">> :> 1)
    @@ (<<"1", "0", "-", "9", "9">> :> 10)
    @@ (<<"1", "0", "0", "-", "9", "9", "9">> :> 100)
    @@ (<<"1", "0", "0", "0", "+">> :> 1000)

ParseError == [ok |-> FALSE, value |-> 0]
Parsed(n) == [ok |-> TRUE, value |-> n]

\* float(count_str) for the spellings of whole numbers: digits with an
\* optional sign; every other spelling used in the model is a ValueError
FloatOf(s) ==
    IF IsDigits(s) THEN Parsed(ToInt(s))
    ELSE IF Len(s) >= 2 /\ Head(s) = "-" /\ IsDigits(Tail(s))
         THEN Parsed(0 - ToInt(Tail(s)))
    ELSE IF Len(s) >= 2 /\ Head(s) = "+" /\ IsDigits(Tail(s))
         THEN Parsed(ToInt(Tail(s)))
    ELSE ParseError

\* _map_count_to_number that takes the upper end of a range
_map_count_to_number_UsesMaximum(count_text) ==
    LET count_str == Strip(count_text)
        hyphens == {i \in 1..Len(count_str) : count_str[i] = "-"}
        range_match ==
            /\ Cardinality(hyphens) = 1
            /\ LET h == CHOOSE i \in hyphens : TRUE
               IN  /\ IsDigits(SubSeq(count_str, 1, h - 1))
                   /\ IsDigits(SubSeq(count_str, h + 1, Len(count_str)))
        plus_match ==
            /\ Len(count_str) >= 2
            /\ count_str[Len(count_str)] = "+"
            /\ IsDigits(SubSeq(count_str, 1, Len(count_str) - 1))
    IN  IF count_str \in DOMAIN COUNT_MAPPING
            THEN Parsed(COUNT_MAPPING[count_str])
        ELSE IF range_match
            THEN Parsed(ToInt(SubSeq(count_str, (CHOOSE i \in hyphens : TRUE) + 1,
                                     Len(count_str))))
        ELSE IF plus_match
            THEN Parsed(ToInt(SubSeq(count_str, 1, Len(count_str) - 1)))
        ELSE FloatOf(count_str)

_map_count_to_number(count_text) ==
    LET count_str == Strip(count_text)
        hyphens == {i \in 1..Len(count_str) : count_str[i] = "-"}
        range_match ==
            /\ Cardinality(hyphens) = 1
            /\ LET h == CHOOSE i \in hyphens : TRUE
               IN  /\ IsDigits(SubSeq(count_str, 1, h - 1))
                   /\ IsDigits(SubSeq(count_str, h + 1, Len(count_str)))
        plus_match ==
            /\ Len(count_str) >= 2
            /\ count_str[Len(count_str)] = "+"
            /\ IsDigits(SubSeq(count_str, 1, Len(count_str) - 1))
    IN  IF count_str \in DOMAIN COUNT_MAPPING
            THEN Parsed(COUNT_MAPPING[count_str])
        ELSE IF range_match
            THEN Parsed(ToInt(SubSeq(count_str, 1,
                                     (CHOOSE i \in hyphens : TRUE) - 1)))
        ELSE IF plus_match
            THEN Parsed(ToInt(SubSeq(count_str, 1, Len(count_str) - 1)))
        ELSE FloatOf(count_str)

\* cells_data is a sequence of [count, directSun]; the result is
\* (total_butterflies, butterflies_direct_sun), or a ValueError
_process_cells(cells_data) ==
    LET nums == [i \in 1..Len(cells_data) |->
                    _map_count_to_number(cells_data[i].count)]
    IN  IF \E i \in 1..Len(cells_data) : ~nums[i].ok
        THEN [ok |-> FALSE, total |-> 0, sun |-> 0]
        ELSE [ok |-> TRUE,
              total |-> SumSeq([i \in 1..Len(cells_data) |-> nums[i].value]),
              sun |-> SumSeq([i \in 1..Len(cells_data) |->
                        IF cells_data[i].directSun THEN nums[i].value ELSE 0])]

----------------------------------------------------------------------------
(* Night/Downsample Filter *)

Deployments == {"SC1", "SC3"}

\* order of the deployment ids as strings
DeploymentRank(d) == CASE d = "SC1" -> 1 [] d = "SC2" -> 2 [] d = "SC3" -> 3

\* the table of 14-digit strings, each string as its characters
NIGHT_PERIODS ==
    ("SC1" :>
        { <<<<"2", "0", "2", "3", "1", "1", "1", "7", "1", "7", "4", "0", "0", "1">>,
            <<"2", "0", "2", "3", "1", "1", "1", "8", "0", "6", "2", "0", "0", "1">>>>,
          <<<<"2", "0", "2", "3", "1", "1", "1", "8", "1", "7", "2", "5", "0", "1">>,
            <<"2", "0", "2", "3", "1", "1", "1", "9", "0", "6", "1", "5", "0", "1">>>>,
          <<<<"2", "0", "2", "3", "1", "1", "1", "9", "1", "7", "1", "0", "0", "1">>,
            <<"2", "0", "2", "3", "1", "1", "2", "0", "0", "6", "2", "0", "0", "1">>>>,
          <<<<"2", "0", "2", "3", "1", "1", "2", "0", "1", "7", "2", "0", "0", "1">>,
            <<"2", "0", "2", "3", "1", "1", "2", "1", "0", "6", "3", "0", "0", "1">>>> })
    @@ ("SC2" :>
        { <<<<"2", "0", "2", "3", "1", "1", "1", "7", "1", "7", "2", "5", "0", "1">>,
            <<"2", "0", "2", "3", "1", "1", "1", "8", "0", "6", "2", "0", "0", "1">>>>,
          <<<<"2", "0", "2", "3", "1", "1", "1", "8", "1", "7", "1", "5", "0", "1">>,
            <<"2", "0", "2", "3", "1", "1", "1", "9", "0", "6", "1", "5", "0", "1">>>> })

DOWNSAMPLE_RULES ==
    [d \in {"SC1", "SC2", "SC7", "SC12", "SC9", "SLC6_2"} |->
        [original_interval |-> IF d \in {"SC1", "SC2"} THEN 5 ELSE 10,
         target_interval |-> 30]]

----------------------------------------------------------------------------
(* Timestamps of filenames: a filename is a sequence of characters *)

\* a datetime, and the None returned when there is none
datetime(year, month, day, hour, minute, second) ==
    [year |-> year, month |-> month, day |-> day,
     hour |-> hour, minute |-> minute, second |-> second]

None == datetime(0, 0, 0, 0, 0, 0)

IsLeap(year) == year % 4 = 0 /\ (year % 100 # 0 \/ year % 400 = 0)

DaysInMonth(year, month) ==
    CASE month \in {4, 6, 9, 11} -> 30
      [] month = 2 -> IF IsLeap(year) THEN 29 ELSE 28
      [] OTHER -> 31

\* strptime with the format '%Y%d%m%H%M%S'
strptime_DayBeforeMonth(timestamp_str) ==
    LET Field(i, j) == ToInt(SubSeq(timestamp_str, i, j))
        year == Field(1, 4)
        month == Field(7, 8)
        day == Field(5, 6)
    IN  IF /\ year >= 1
           /\ month \in 1..12
           /\ day >= 1 /\ day <= DaysInMonth(year, month)
           /\ Field(9, 10) <= 23 /\ Field(11, 12) <= 59 /\ Field(13, 14) <= 59
        THEN datetime(year, month, day, Field(9, 10), Field(11, 12), Field(13, 14))
        ELSE None

\* datetime.strptime(timestamp_str, '%Y%m%d%H%M%S') on 14 digits: every
\* field takes its full width; a value out of range is a ValueError (None)
strptime(timestamp_str) ==
    LET Field(i, j) == ToInt(SubSeq(timestamp_str, i, j))
        year == Field(1, 4)
        month == Field(5, 6)
        day == Field(7, 8)
        hour == Field(9, 10)
        minute == Field(11, 12)
        second == Field(13, 14)
    IN  IF /\ year >= 1
           /\ month \in 1..12
           /\ day >= 1 /\ day <= DaysInMonth(year, month)
           /\ hour <= 23 /\ minute <= 59 /\ second <= 59
        THEN datetime(year, month, day, hour, minute, second)
        ELSE None

\* the decimal digits of n, padded with zeros to width characters
DigitChar(n) ==
    CASE n = 0 -> "0" [] n = 1 -> "1" [] n = 2 -> "2" [] n = 3 -> "3" [] n = 4 -> "4"
      [] n = 5 -> "5" [] n = 6 -> "6" [] n = 7 -> "7" [] n = 8 -> "8" [] n = 9 -> "9"

RECURSIVE Padded(_, _)
Padded(n, width) ==
    IF width = 0 THEN <<>>
    ELSE Append(Padded(n \div 10, width - 1), DigitChar(n % 10))

\* timestamp.strftime('%Y%m%d%H%M%S'), for years of four digits
strftime(timestamp) ==
    Padded(timestamp.year, 4) \o Padded(timestamp.month, 2) \o Padded(timestamp.day, 2)
        \o Padded(timestamp.hour, 2) \o Padded(timestamp.minute, 2)
        \o Padded(timestamp.second, 2)

\* re.search(r'_(\d{14})', filename): the first underscore that is followed
\* by 14 digits; then strptime on those digits
_extract_timestamp_from_filename(filename) ==
    LET matches == {i \in 1..(Len(filename) - 14) :
                        /\ filename[i] = "_"
                        /\ \A j \in (i + 1)..(i + 14) : filename[j] \in Digits}
    IN  IF matches = {} THEN None
        ELSE LET timestamp_str == SubSeq(filename, Min(matches) + 1, Min(matches) + 14)
             IN  strptime(timestamp_str)

\* days from 1970-01-01 to a date of the proleptic Gregorian calendar
DaysFromCivil(year, month, day) ==
    LET y == IF month <= 2 THEN year - 1 ELSE year
        era == y \div 400
        yoe == y % 400
        mp == (month + 9) % 12
        doy == (153 * mp + 2) \div 5 + day - 1
        doe == yoe * 365 + yoe \div 4 - yoe \div 100 + doy
    IN  era * 146097 + doe - 719468

\* the date that many days after 1970-01-01, as <<year, month, day>>
CivilFromDays(z) ==
    LET zz == z + 719468
        era == zz \div 146097
        doe == zz % 146097
        yoe == (doe - doe \div 1460 + doe \div 36524 - doe \div 146096) \div 365
        doy == doe - (365 * yoe + yoe \div 4 - yoe \div 100)
        mp == (5 * doy + 2) \div 153
        day == doy - (153 * mp + 2) \div 5 + 1
        month == IF mp < 10 THEN mp + 3 ELSE mp - 9
        year == yoe + era * 400 + (IF month <= 2 THEN 1 ELSE 0)
    IN  <<year, month, day>>

\* day 0 of the model is 2023-11-17
Day0 == DaysFromCivil(2023, 11, 17)

\* a datetime as seconds from day 0, 00:00:00, and back
Seconds(timestamp) ==
    At(DaysFromCivil(timestamp.year, timestamp.month, timestamp.day) - Day0,
       timestamp.hour, timestamp.minute, timestamp.second)

FromSeconds(ts) ==
    LET date == CivilFromDays(Day0 + DateOf(ts))
        t == ts % SecondsPerDay
    IN  datetime(date[1], date[2], date[3], t \div 3600, (t % 3600) \div 60, t % 60)

\* what the stamp of an image file says when its name has no 14 digits
\* (NoStamp) or 14 digits that are no date (BadStamp)
NoStamp == -1
BadStamp == -2

\* the characters of a deployment id
Chars(d) ==
    CASE d = "SC1" -> <<"S", "C", "1">>
      [] d = "SC2" -> <<"S", "C", "2">>
      [] d = "SC3" -> <<"S", "C", "3">>

\* the name of an image file: deploymentID_YYYYMMDDHHMMSS.JPG
FileName(f) ==
    Chars(f.prefix)
        \o (CASE f.stamp = NoStamp -> <<"_", "c", "o", "p", "y">>
              [] f.stamp = BadStamp ->
                    <<"_", "2", "0", "2", "3", "1", "3", "1", "7",
                      "1", "4", "0", "0", "0", "0">>
              [] OTHER -> <<"_">> \o strftime(FromSeconds(f.stamp)))
        \o <<".", "J", "P", "G">>

\* the timestamp of an image in seconds, NoStamp when there is None
InSeconds(timestamp) == IF timestamp = None THEN NoStamp ELSE Seconds(timestamp)

TimestampOf(img) ==
    InSeconds(_extract_timestamp_from_filename(FileName(img.image_filename)))

\* the images of a file, each with the timestamp extracted from its name
Extracted(classifications) ==
    {img @@ [timestamp |-> TimestampOf(img)] : img \in classifications}

\* a <= b on strings of digits, character by character
StrLeq(a, b) ==
    \/ a = b
    \/ \E i \in 1..Len(a) :
          /\ i <= Len(b)
          /\ \A j \in 1..(i - 1) : a[j] = b[j]
          /\ DigitVal(a[i]) < DigitVal(b[i])

\* _is_night_image with the end of a period excluded
_is_night_image_EndExcluded(deployment_id, timestamp) ==
    LET Within(timestamp_str) ==
            \E p \in NIGHT_PERIODS[deployment_id] :
                /\ StrLeq(p[1], timestamp_str)
                /\ StrLeq(timestamp_str, p[2])
                /\ timestamp_str # p[2]
    IN  /\ deployment_id \in DOMAIN NIGHT_PERIODS
        /\ Within(strftime(FromSeconds(timestamp)))

\* the timestamp is formatted as 14 digits and compared as a string with
\* the two strings of each period
_is_night_image(deployment_id, timestamp) ==
    LET Within(timestamp_str) ==
            \E p \in NIGHT_PERIODS[deployment_id] :
                StrLeq(p[1], timestamp_str) /\ StrLeq(timestamp_str, p[2])
    IN  /\ deployment_id \in DOMAIN NIGHT_PERIODS
        /\ Within(strftime(FromSeconds(timestamp)))

\* _should_downsample with the interval the deployment recorded at
_should_downsample_OriginalInterval(deployment_id, timestamp) ==
    /\ deployment_id \in DOMAIN DOWNSAMPLE_RULES
    /\ FromSeconds(timestamp).minute % DOWNSAMPLE_RULES[deployment_id].original_interval # 0

_should_downsample(deployment_id, timestamp) ==
    /\ deployment_id \in DOMAIN DOWNSAMPLE_RULES
    /\ FromSeconds(timestamp).minute % DOWNSAMPLE_RULES[deployment_id].target_interval # 0


----------------------------------------------------------------------------
(* The classification files *)

CellsNone == <<>>
CellsZero == <<[count |-> <<"0">>, directSun |-> FALSE]>>
Cells11 == <<[count |-> <<"1", "-", "9">>, directSun |-> TRUE],
             [count |-> <<"1", "0", "-", "9", "9">>, directSun |-> FALSE]>>
Cells50 == <<[count |-> <<"1", "0", "-", "9", "9">>, directSun |-> TRUE],
             [count |-> <<"1", "0", "-", "9", "9">>, directSun |-> FALSE],
             [count |-> <<" ", "1", "0", "-", "9", "9">>, directSun |-> FALSE],
             [count |-> <<"1", "0">>, directSun |-> FALSE],
             [count |-> <<"1", "0", "+">>, directSun |-> FALSE]>>

\* one cell with the smallest count that is not zero
Cells1 == <<[count |-> <<"1", "-", "9">>, directSun |-> FALSE]>>

\* a cell whose count label is no count
CellsBad == <<[count |-> <<"x">>, directSun |-> FALSE]>>

\* one image of a day: what its filename says (a time of day, NoStamp or
\* BadStamp), the isNight flag of the file, the cells
ShotAt(h, m, sec, night, cells) ==
    [stamp |-> h * 3600 + m * 60 + sec, isNight |-> night, cells |-> cells]

Shot(h, m, night, cells) == ShotAt(h, m, 0, night, cells)

Undated(stamp, night, cells) == [stamp |-> stamp, isNight |-> night, cells |-> cells]

\* the images a deployment-day can hold
Profiles ==
    [ none       |-> {},
      night_only |-> { Shot(22, 0, TRUE, Cells50) },
      zeros      |-> { Shot(14, 0, FALSE, CellsZero), Shot(17, 30, FALSE, CellsNone) },
      peak       |-> { Shot(13, 30, FALSE, CellsZero), Shot(14, 0, FALSE, Cells50),
                       Shot(17, 30, FALSE, Cells11) },
      dense      |-> { Shot(10, 0, FALSE, Cells11), Shot(14, 0, FALSE, Cells50),
                       Shot(14, 10, FALSE, Cells50), Shot(14, 30, FALSE, Cells50),
                       Shot(18, 0, FALSE, CellsZero) },
      undated    |-> { Shot(14, 0, FALSE, Cells50),
                       Undated(NoStamp, FALSE, Cells11),
                       Undated(BadStamp, FALSE, CellsBad) },
      garbled    |-> { Shot(14, 0, FALSE, Cells11), Shot(14, 30, FALSE, CellsBad) },
      garbled_night |-> { Shot(14, 0, FALSE, Cells11), Shot(22, 0, TRUE, CellsBad) },
      garbled_offcadence |-> { Shot(14, 0, FALSE, Cells11),
                               Shot(14, 10, FALSE, CellsBad) },
      dusk       |-> { Shot(14, 0, FALSE, Cells11),
                       ShotAt(6, 20, 1, FALSE, CellsZero),
                       ShotAt(6, 20, 2, FALSE, CellsZero),
                       ShotAt(17, 40, 0, FALSE, Cells11),
                       ShotAt(17, 40, 1, FALSE, Cells11),
                       Shot(22, 10, TRUE, CellsZero) },
      step       |-> { Shot(13, 30, FALSE, CellsZero), Shot(14, 0, FALSE, Cells1),
                       Shot(14, 30, FALSE, CellsZero) } ]

ProfileNames == {"none", "night_only", "zeros", "peak", "dense"}

\* the days a deployment can have data for: SC1 MaxDays days, SC3 one less
DaysOf(d) == IF d = "SC1" THEN 0..(MaxDays - 1) ELSE 0..(MaxDays - 2)

DayKeys == {k \in Deployments \X (0..(MaxDays - 1)) : k[2] \in DaysOf(k[1])}

\* the directories whose deployment-days hold images of the profiles names
JsonDirsOf(names) ==
    {j \in [DayKeys -> names] :
        Cardinality({k \in DayKeys : j[k] # "none"}) <= MaxDayFiles}

JsonDirs == JsonDirsOf(ProfileNames)

\* json_path.glob('*.json'): a deployment has a file when it has images
JsonFiles(dir) == {d \in Deployments : \E k \in DayKeys : k[1] = d /\ dir[k] # "none"}

\* classifications.items() of the file of deployment d
Classifications(dir, d) ==
    UNION { { [image_filename |->
                   [prefix |-> d,
                    stamp |-> IF sh.stamp < 0 THEN sh.stamp
                              ELSE k[2] * SecondsPerDay + sh.stamp],
               isNight |-> sh.isNight, cells |-> sh.cells] : sh \in Profiles[dir[k]] }
            : k \in {kk \in DayKeys : kk[1] = d} }


----------------------------------------------------------------------------
(* Ingestion: process_deployments of the three scripts *)

\* position of an observation in sort_values(['deployment_id', 'timestamp'])
ObsKey(S) == [r \in S |-> DeploymentRank(r.deployment_id) * (MaxDays + 2) * SecondsPerDay
                          + r.timestamp]

\* data_prep_dynamic_windows: night images are kept and flagged, and are
\* exempt from downsampling
IsNightDynamic(d, img) ==
    img.isNight \/ _is_night_image(d, img.timestamp)

KeptDynamic(d, img) ==
    LET timestamp == img.timestamp
    IN  /\ timestamp # NoStamp
        /\ ~(~IsNightDynamic(d, img) /\ _should_downsample(d, timestamp))

\* KeptDaytime without the test of the isNight flag
KeptDaytime_IgnoresFlag(d, img) ==
    LET timestamp == img.timestamp
    IN  /\ timestamp # NoStamp
        /\ ~_is_night_image(d, timestamp)
        /\ ~_should_downsample(d, timestamp)

\* data_prep_daily_lag and data_prep_lag: night and off-cadence images are dropped
KeptDaytime(d, img) ==
    LET timestamp == img.timestamp
    IN  /\ ~img.isNight
        /\ timestamp # NoStamp
        /\ ~_is_night_image(d, timestamp)
        /\ ~_should_downsample(d, timestamp)

RowDynamic(d, img) ==
    LET timestamp == img.timestamp
        c == _process_cells(img.cells)
    IN  [deployment_id |-> d, image_filename |-> img.image_filename,
         timestamp |-> timestamp, date |-> DateOf(timestamp),
         total_butterflies |-> c.total, butterflies_direct_sun |-> c.sun,
         isNight |-> IsNightDynamic(d, img)]

RowDaily(d, img) ==
    LET timestamp == img.timestamp
        c == _process_cells(img.cells)
    IN  [deployment_id |-> d, image_filename |-> img.image_filename,
         timestamp |-> timestamp, date |-> DateOf(timestamp),
         total_butterflies |-> c.total, butterflies_direct_sun |-> c.sun]

RowLag(d, img) ==
    LET timestamp == img.timestamp
        c == _process_cells(img.cells)
    IN  [deployment_id |-> d, image_filename |-> img.image_filename,
         timestamp |-> timestamp,
         total_butterflies |-> c.total, butterflies_direct_sun |-> c.sun]

\* result of a call: status "ok" and a value, or the exception raised
Ok(v) == [status |-> "ok", value |-> v]
Raise(e) == [status |-> e, value |-> <<>>]

\* process_deployments that parses the cells of an image before looking at
\* its filename
process_deployments_ParsesEveryImage(dir) ==
    LET Loop(images) ==
            LET kept == [d \in Deployments |-> {img \in images[d] : KeptDynamic(d, img)}]
                Sorted(rows) == SortByKey(rows, ObsKey(rows))
            IN  IF \E d \in JsonFiles(dir) :
                        \E img \in Classifications(dir, d) : ~_process_cells(img.cells).ok
                THEN Raise("ValueError")
                ELSE Ok(Sorted(UNION {{RowDynamic(d, img) : img \in kept[d]} :
                                        d \in JsonFiles(dir)}))
    IN  IF JsonFiles(dir) = {} THEN Raise("RuntimeError")
        ELSE Loop([d \in Deployments |-> Extracted(Classifications(dir, d))])

process_deployments(dir) ==
    LET Loop(images) ==
            LET kept == [d \in Deployments |-> {img \in images[d] : KeptDynamic(d, img)}]
                Sorted(rows) == SortByKey(rows, ObsKey(rows))
            IN  IF \E d \in JsonFiles(dir) :
                        \E img \in kept[d] : ~_process_cells(img.cells).ok
                THEN Raise("ValueError")
                ELSE Ok(Sorted(UNION {{RowDynamic(d, img) : img \in kept[d]} :
                                        d \in JsonFiles(dir)}))
    IN  IF JsonFiles(dir) = {} THEN Raise("RuntimeError")
        ELSE Loop([d \in Deployments |-> Extracted(Classifications(dir, d))])

process_deployments_daily(dir) ==
    LET Loop(images) ==
            LET kept == [d \in Deployments |-> {img \in images[d] : KeptDaytime(d, img)}]
                Sorted(rows) == SortByKey(rows, ObsKey(rows))
            IN  IF \E d \in JsonFiles(dir) :
                        \E img \in kept[d] : ~_process_cells(img.cells).ok
                THEN Raise("ValueError")
                ELSE Ok(Sorted(UNION {{RowDaily(d, img) : img \in kept[d]} :
                                        d \in JsonFiles(dir)}))
    IN  IF JsonFiles(dir) = {} THEN Raise("RuntimeError")
        ELSE Loop([d \in Deployments |-> Extracted(Classifications(dir, d))])

process_deployments_lag(dir) ==
    LET Loop(images) ==
            LET kept == [d \in Deployments |-> {img \in images[d] : KeptDaytime(d, img)}]
                Sorted(rows) == SortByKey(rows, ObsKey(rows))
            IN  IF \E d \in JsonFiles(dir) :
                        \E img \in kept[d] : ~_process_cells(img.cells).ok
                THEN Raise("RuntimeError")
                ELSE Ok(Sorted(UNION {{RowLag(d, img) : img \in kept[d]} :
                                        d \in JsonFiles(dir)}))
    IN  IF JsonFiles(dir) = {} THEN Raise("RuntimeError")
        ELSE Loop([d \in Deployments |-> Extracted(Classifications(dir, d))])

----------------------------------------------------------------------------
(* Temperature file and the temperature join *)

\* np.nan
NaN == -999

\* the reading the logger took at a time of day (whole degrees)
TempAt(ts) == 8 + ((ts % SecondsPerDay) \div 3600) \div 2

\* contents the temperature CSV can have:
\*   per_image   one row for every image of the classification files
\*   half_hourly one row every 30 minutes, day and night, per deployment
\*   missing     the file does not exist
\*   repeated    the rows of per_image and, for every image, a second row
\*               with another reading
TempFiles == {"missing", "per_image", "half_hourly"}

TempRows(file, dir) ==
    IF file = "per_image"
    THEN UNION {{[filename |-> img.image_filename,
                  temperature |-> TempAt(img.image_filename.stamp)]
                 : img \in Classifications(dir, d)} : d \in Deployments}
    ELSE IF file = "half_hourly"
    THEN {[filename |-> [prefix |-> d, stamp |-> 1800 * k], temperature |-> TempAt(1800 * k)]
          : d \in Deployments, k \in 0..(48 * MaxDays)}
    ELSE IF file = "repeated"
    THEN UNION {{[filename |-> img.image_filename,
                  temperature |-> TempAt(img.image_filename.stamp) + again]
                 : img \in Classifications(dir, d), again \in {0, 1}} : d \in Deployments}
    ELSE {}

\* butterfly_df.merge(temp_df, left_on='image_filename', right_on='filename',
\* how='left'): one output row per matching temperature row, one row with
\* NaN when none matches
LeftJoinTemperature(df, rows) ==
    LET Expand(r) ==
            LET m == {t \in rows : t.filename = r.image_filename}
            IN  IF m = {} THEN <<r @@ [temperature |-> NaN]>>
                ELSE SortByKey({r @@ [temperature |-> t.temperature] : t \in m},
                               [x \in {r @@ [temperature |-> t.temperature] : t \in m}
                                  |-> x.temperature])
        RECURSIVE Cat(_)
        Cat(i) == IF i > Len(df) THEN <<>> ELSE Expand(df[i]) \o Cat(i + 1)
    IN  Cat(1)

\* the full series with timestamps, for the window queries
Temp24hr(rows) ==
    {[deployment_id |-> t.filename.prefix, timestamp |-> t.filename.stamp,
      temperature |-> t.temperature] : t \in {x \in rows : x.filename.stamp >= 0}}

\* data_prep_dynamic_windows.add_temperature_data: (merged_df, temp_24hr_df)
add_temperature_data(df, file, dir) ==
    IF df = <<>> THEN Raise("ValueError")
    ELSE IF file = "missing" THEN Raise("FileNotFoundError")
    ELSE Ok([merged_df |-> LeftJoinTemperature(df, TempRows(file, dir)),
             temp_df |-> Temp24hr(TempRows(file, dir))])

\* data_prep_daily_lag.add_temperature_data
add_temperature_data_daily(df, file, dir) ==
    IF df = <<>> THEN Raise("ValueError")
    ELSE IF file = "missing" THEN Raise("FileNotFoundError")
    ELSE Ok(LeftJoinTemperature(df, TempRows(file, dir)))

\* data_prep_lag.add_temperature_data: refuses duplicate filenames and a
\* join that changes the row count
add_temperature_data_lag(df, file, dir) ==
    LET rows == TempRows(file, dir)
        merged_df == LeftJoinTemperature(df, rows)
    IN  IF df = <<>> THEN Raise("ValueError")
        ELSE IF file = "missing" THEN Raise("FileNotFoundError")
        ELSE IF Cardinality({t.filename : t \in rows}) # Cardinality(rows)
            THEN Raise("ValueError")
        ELSE IF Len(merged_df) # Len(df) THEN Raise("RuntimeError")
        ELSE Ok(merged_df)


----------------------------------------------------------------------------
(* Daily Aggregator *)

\* (deployment_id, date) keys in groupby order
GroupKeys(df) ==
    LET K == {<<df[i].deployment_id, df[i].date>> : i \in 1..Len(df)}
    IN  SortByKey(K, [k \in K |-> DeploymentRank(k[1]) * (MaxDays + 2) + k[2]])

Group(df, k) == SelectSeq(df, LAMBDA r : r.deployment_id = k[1] /\ r.date = k[2])

Column(df, Field(_)) == [i \in 1..Len(df) |-> Field(df[i])]

\* the last index of the maximum
ArgMax_LastIndex(v) == CHOOSE i \in 1..Len(v) :
                          /\ \A j \in 1..Len(v) : v[j] <= v[i]
                          /\ \A j \in (i + 1)..Len(v) : v[j] < v[i]

\* numpy argmax: first index of the maximum
ArgMax(v) == CHOOSE i \in 1..Len(v) :
                /\ \A j \in 1..Len(v) : v[j] <= v[i]
                /\ \A j \in 1..(i - 1) : v[j] < v[i]

\* np.percentile(v, 95), linear interpolation, as <<numerator, 20>>
Percentile95(v) ==
    LET sorted == SortSeq(v, LAMBDA a, b : a < b)
        n == Len(v)
        lo == (19 * (n - 1)) \div 20
        frac == (19 * (n - 1)) % 20
    IN  IF frac = 0 THEN <<20 * sorted[lo + 1], 20>>
        ELSE <<20 * sorted[lo + 1] + frac * (sorted[lo + 2] - sorted[lo + 1]), 20>>

\* mean of the three largest values, padded with zeros, as <<numerator, 3>>
Top3Mean(v) ==
    LET sorted == SortSeq(v, LAMBDA a, b : a < b)
        n == Len(v)
        top == SubSeq(sorted, IF n > 3 THEN n - 2 ELSE 1, n)
    IN  <<SumSeq(top), 3>>

\* season_start = 2023-10-15, 33 days before day 0
DaysSinceOct15(date) == date + 33

\* the statistics of one day's observations obs (a non-empty sequence)
DayStats(deployment_id, date, obs) ==
    LET total_butterflies == Column(obs, LAMBDA r : r.total_butterflies)
        max_idx == ArgMax(total_butterflies)
        temperatures == SelectSeq(Column(obs, LAMBDA r : r.temperature),
                                  LAMBDA t : t # NaN)
        has_temp == Len(temperatures) > 0
    IN  [deployment_id |-> deployment_id,
         date |-> date,
         photo_count |-> Len(obs),
         max_butterflies |-> Max(SeqToSet(total_butterflies)),
         butterflies_95th_percentile |-> Percentile95(total_butterflies),
         butterflies_top3_mean |-> Top3Mean(total_butterflies),
         sum_butterflies_direct_sun |->
             SumSeq(Column(obs, LAMBDA r : r.butterflies_direct_sun)),
         time_of_max |-> obs[max_idx].timestamp,
         temp_max |-> IF has_temp THEN Max(SeqToSet(temperatures)) ELSE NaN,
         temp_min |-> IF has_temp THEN Min(SeqToSet(temperatures)) ELSE NaN,
         temp_mean |-> IF has_temp THEN <<SumSeq(temperatures), Len(temperatures)>>
                       ELSE <<NaN, 1>>,
         temp_at_max_count |-> IF has_temp THEN obs[max_idx].temperature ELSE NaN,
         hours_above_15C |->
             <<Len(SelectSeq(temperatures, LAMBDA t : t >= 15)), 2>>,
         degree_hours_above_15C |->
             <<SumSeq([i \in 1..Len(temperatures) |->
                        IF temperatures[i] > 15 THEN temperatures[i] - 15 ELSE 0]), 2>>,
         days_since_oct15 |-> DaysSinceOct15(date)]

\* groupby('deployment_id').cumcount() + 1 on the sorted frame
CumCount(rows, i) ==
    Cardinality({j \in 1..i : rows[j].deployment_id = rows[i].deployment_id})

\* create_daily_aggregates_with_sunset that counts the night observations too
create_daily_aggregates_with_sunset_CountsNight(df) ==
    LET keys == GroupKeys(df)
        Daytime(k) == Group(df, k)
        kept == SelectSeq(keys, LAMBDA k : Len(Daytime(k)) # 0)
        daily_stats ==
            [i \in 1..Len(kept) |->
                DayStats(kept[i][1], kept[i][2], Daytime(kept[i]))
                @@ [last_observation_time |->
                       Max({r.timestamp : r \in SeqToSet(Daytime(kept[i]))})]]
        sorted == SortSeq(daily_stats,
                          LAMBDA a, b :
                             DeploymentRank(a.deployment_id) * (MaxDays + 2) + a.date
                             < DeploymentRank(b.deployment_id) * (MaxDays + 2) + b.date)
    IN  IF df = <<>> THEN Raise("ValueError")
        ELSE IF daily_stats = <<>> THEN Raise("KeyError")
        ELSE Ok([i \in 1..Len(sorted) |->
                    sorted[i] @@ [day_sequence |-> CumCount(sorted, i)]])

\* data_prep_dynamic_windows.create_daily_aggregates_with_sunset
create_daily_aggregates_with_sunset(df) ==
    LET keys == GroupKeys(df)
        Daytime(k) == SelectSeq(Group(df, k), LAMBDA r : ~r.isNight)
        kept == SelectSeq(keys, LAMBDA k : Len(Daytime(k)) # 0)
        daily_stats ==
            [i \in 1..Len(kept) |->
                DayStats(kept[i][1], kept[i][2], Daytime(kept[i]))
                @@ [last_observation_time |->
                       Max({r.timestamp : r \in SeqToSet(Daytime(kept[i]))})]]
        sorted == SortSeq(daily_stats,
                          LAMBDA a, b :
                             DeploymentRank(a.deployment_id) * (MaxDays + 2) + a.date
                             < DeploymentRank(b.deployment_id) * (MaxDays + 2) + b.date)
    IN  IF df = <<>> THEN Raise("ValueError")
        ELSE IF daily_stats = <<>> THEN Raise("KeyError")
        ELSE Ok([i \in 1..Len(sorted) |->
                    sorted[i] @@ [day_sequence |-> CumCount(sorted, i)]])

\* data_prep_daily_lag.create_daily_aggregates
create_daily_aggregates(df) ==
    LET keys == GroupKeys(df)
        daily_stats ==
            [i \in 1..Len(keys) |-> DayStats(keys[i][1], keys[i][2], Group(df, keys[i]))]
    IN  IF df = <<>> THEN Raise("ValueError")
        ELSE Ok(daily_stats)

\* filter_valid_days with an exclusive upper bound
filter_valid_days_StrictMax(df, min_photos, max_photos) ==
    SelectSeq(df, LAMBDA r : r.photo_count >= min_photos /\ r.photo_count < max_photos)

\* filter_valid_days: the same function in both daily scripts
filter_valid_days(df, min_photos, max_photos) ==
    SelectSeq(df, LAMBDA r : r.photo_count >= min_photos /\ r.photo_count <= max_photos)


----------------------------------------------------------------------------
(* Deployment metadata and wind databases *)

\* contents the deployments CSV can have
\*   missing    no file
\*   ok         one row per deployment, each with its wind meter
DeploymentFiles == {"missing", "ok"}

\* further contents:
\*   sc1_only   no row for SC3
\*   sc3_blank  the wind_meter_name cell of SC3 is empty (read as NaN)
\*   sc1_twice  two rows for SC1
AnyDeploymentFiles == DeploymentFiles \cup {"sc1_only", "sc3_blank", "sc1_twice"}

DeploymentRows(file) ==
    LET sc1 == [deployment_id |-> "SC1", wind_meter_name |-> "WM1", Observer |-> "A",
                horizontal_dist_to_cluster_m |-> 12, grove |-> "north", view_id |-> "v1"]
        sc3 == [deployment_id |-> "SC3", wind_meter_name |-> "WM3", Observer |-> "B",
                horizontal_dist_to_cluster_m |-> 30, grove |-> "south", view_id |-> "v3"]
    IN  CASE file = "ok" -> <<sc1, sc3>>
          [] file = "sc1_only" -> <<sc1>>
          [] file = "sc3_blank" -> <<sc1, [sc3 EXCEPT !.wind_meter_name = "nan"]>>
          [] file = "sc1_twice" -> <<sc1, [sc1 EXCEPT !.Observer = "C"], sc3>>
          [] OTHER -> <<>>

\* contents the wind database directory can have:
\*   empty_dir   no .s3db file
\*   minutely    a database per wind meter, one reading every minute
\*   sc1_hourly  a database for the meter of SC1 only, one reading every hour
\*   corrupt     a file per wind meter on which every query fails (no Wind
\*               table, malformed schema, unreadable file)
WindDirs == {"empty_dir", "minutely", "sc1_hourly", "corrupt"}

\* wind_db_path.glob('*.s3db'), by stem
db_files(dir) ==
    CASE dir \in {"minutely", "corrupt"} -> {"WM1", "WM3"}
      [] dir = "sc1_hourly" -> {"WM1"}
      [] OTHER -> {}

\* pd.read_sql_query raises on the databases of dir
QueryFails(dir) == dir = "corrupt"

\* seconds between two readings of the Wind table of a database
WindPeriod(dir) == IF dir = "minutely" THEN 60 ELSE 3600

\* the time column of the Wind table: a reading every WindPeriod seconds from
\* day 0 to the end of the last day; here the readings with
\* start_time <= time <= end_time (SELECT ... WHERE time BETWEEN ? AND ?)
WindBetween(dir, start_time, end_time) ==
    IF dir \notin {"minutely", "sc1_hourly"} THEN {}
    ELSE LET p == WindPeriod(dir)
             lo == IF start_time <= 0 THEN 0 ELSE (start_time + p - 1) \div p
             hi == IF end_time >= MaxDays * SecondsPerDay
                   THEN (MaxDays * SecondsPerDay) \div p ELSE end_time \div p
         IN  {p * k : k \in lo..hi}

\* the gust column (whole m/s) of the reading at time t
GustAt(t) == (t \div 3600) % 4

\* deployments_df.set_index('deployment_id')['wind_meter_name'].to_dict()
wind_meter_map(df) ==
    [d \in {df[i].deployment_id : i \in 1..Len(df)} |->
        df[Max({i \in 1..Len(df) : df[i].deployment_id = d})].wind_meter_name]

----------------------------------------------------------------------------
(* External Metric Queriers *)

Ratio(a, b) == LET g == Gcd(a, b) IN <<a \div g, b \div g>>

\* min(1.0, observed / expected) if expected > 0 else 0.0, where
\* expected = duration / period; as an exact ratio
Coverage(observed, duration, period) ==
    IF duration <= 0 THEN <<0, 1>>
    ELSE IF observed * period >= duration THEN <<1, 1>>
    ELSE Ratio(observed * period, duration)

\* the window without the reading at end_time
calculate_dynamic_temperature_metrics_HalfOpen(temp_df, deployment_id, start_time, end_time) ==
    LET window_temps ==
            {t \in temp_df : /\ t.deployment_id = deployment_id
                             /\ t.timestamp >= start_time
                             /\ t.timestamp < end_time
                             /\ t.temperature # NaN}
        values == {t.temperature : t \in window_temps}
    IN  IF Cardinality(window_temps) = 0
        THEN [temp_max |-> NaN, temp_min |-> NaN, temp_obs_count |-> 0,
              temp_data_coverage |-> <<0, 1>>]
        ELSE [temp_max |-> Max(values), temp_min |-> Min(values),
              temp_obs_count |-> Cardinality(window_temps),
              temp_data_coverage |->
                  Coverage(Cardinality(window_temps), end_time - start_time, 1800)]

calculate_dynamic_temperature_metrics(temp_df, deployment_id, start_time, end_time) ==
    LET window_temps ==
            {t \in temp_df : /\ t.deployment_id = deployment_id
                             /\ t.timestamp >= start_time
                             /\ t.timestamp <= end_time
                             /\ t.temperature # NaN}
        values == {t.temperature : t \in window_temps}
    IN  IF Cardinality(window_temps) = 0
        THEN [temp_max |-> NaN, temp_min |-> NaN, temp_obs_count |-> 0,
              temp_data_coverage |-> <<0, 1>>]
        ELSE [temp_max |-> Max(values), temp_min |-> Min(values),
              temp_obs_count |-> Cardinality(window_temps),
              temp_data_coverage |->
                  Coverage(Cardinality(window_temps), end_time - start_time, 1800)]

_get_empty_wind_metrics ==
    [wind_max_gust |-> NaN, wind_minutes_above_2ms |-> 0, wind_obs_count |-> 0,
     wind_data_coverage |-> <<0, 1>>]

\* SELECT ... WHERE time BETWEEN start AND end, on the database of dir
\* an exception inside the try block returns the empty metrics
calculate_dynamic_wind_metrics(dir, start_time, end_time) ==
    LET wind_data == WindBetween(dir, start_time, end_time)
    IN  IF QueryFails(dir) THEN _get_empty_wind_metrics
        ELSE IF wind_data = {} THEN _get_empty_wind_metrics
        ELSE [wind_max_gust |-> Max({GustAt(t) : t \in wind_data}),
              wind_minutes_above_2ms |-> Cardinality({t \in wind_data : GustAt(t) >= 2}),
              wind_obs_count |-> Cardinality(wind_data),
              wind_data_coverage |->
                  Coverage(Cardinality(wind_data), end_time - start_time, 60)]

calculate_dynamic_sun_exposure(df, deployment_id, start_time, end_time) ==
    LET daylight_obs ==
            SelectSeq(df, LAMBDA r : /\ r.deployment_id = deployment_id
                                     /\ r.timestamp >= start_time
                                     /\ r.timestamp <= end_time
                                     /\ ~r.isNight)
    IN  IF Len(daylight_obs) = 0
        THEN [sum_butterflies_direct_sun |-> 0, butterfly_obs_count |-> 0,
              butterfly_data_coverage |-> <<0, 1>>]
        ELSE [sum_butterflies_direct_sun |->
                  SumSeq(Column(daylight_obs, LAMBDA r : r.butterflies_direct_sun)),
              butterfly_obs_count |-> Len(daylight_obs),
              butterfly_data_coverage |->
                  Coverage(Len(daylight_obs), end_time - start_time, 3600)]

\* floor(10^6 * num / den) for 0 <= num, without leaving 32 bits
Millionths(num, den) ==
    LET RECURSIVE Digits6(_, _, _)
        Digits6(r, acc, k) ==
            IF k = 0 THEN acc
            ELSE Digits6((r * 10) % den, acc * 10 + (r * 10) \div den, k - 1)
    IN  (num \div den) * 1000000 + Digits6(num % den, 0, 6)

\* the arithmetic mean (a + b + c) / 3 in place of the geometric mean
GeometricMean3_Arithmetic(a, b, c) ==
    Millionths(a[1] * b[2] * c[2] + b[1] * a[2] * c[2] + c[1] * a[2] * b[2],
               3 * a[2] * b[2] * c[2]) \div 10000

\* np.power(a * b * c, 1/3), rounded down to hundredths
GeometricMean3(a, b, c) ==
    LET num == a[1] * b[1] * c[1]
        den == a[2] * b[2] * c[2]
        x == Millionths(num, den)
    IN  CHOOSE k \in 0..1200 : k * k * k <= x /\ x < (k + 1) * (k + 1) * (k + 1)


----------------------------------------------------------------------------
(* Lag-Pair Builder *)

WindowTypes == {"24hr", "sunset"}

\* daily_df['deployment_id'].unique(): ids in order of first appearance
RECURSIVE UniqueIds(_)
UniqueIds(df) ==
    IF df = <<>> THEN <<>>
    ELSE LET rest == UniqueIds(SubSeq(df, 1, Len(df) - 1))
             d == df[Len(df)].deployment_id
         IN  IF d \in SeqToSet(rest) THEN rest ELSE Append(rest, d)

\* daily_df[daily_df['deployment_id'] == deployment_id].sort_values('date')
DeploymentDays(df, deployment_id) ==
    SortSeq(SelectSeq(df, LAMBDA r : r.deployment_id = deployment_id),
            LAMBDA a, b : a.date < b.date)


\* lag_df.merge(deployment_metadata, on='deployment_id', how='left')
MergeMetadata(rows, meta) ==
    LET Expand(r) ==
            LET m == SelectSeq(meta, LAMBDA x : x.deployment_id = r.deployment_id)
            IN  IF m = <<>>
                THEN <<r @@ [Observer |-> "nan", grove |-> "nan", view_id |-> "nan",
                             horizontal_dist_to_cluster_m |-> NaN]>>
                ELSE [i \in 1..Len(m) |->
                        r @@ [Observer |-> m[i].Observer, grove |-> m[i].grove,
                              view_id |-> m[i].view_id,
                              horizontal_dist_to_cluster_m |->
                                  m[i].horizontal_dist_to_cluster_m]]
        RECURSIVE Cat(_)
        Cat(i) == IF i > Len(rows) THEN <<>> ELSE Expand(rows[i]) \o Cat(i + 1)
    IN  Cat(1)

\* WindowStart anchored at the peak of the current day
WindowStart_CurrentDay(previous_day, current_day) == current_day.time_of_max

\* window_start = previous_day['time_of_max']
WindowStart(previous_day, current_day) == previous_day.time_of_max

\* WindowEnd with the two modes exchanged
WindowEnd_ModesSwapped(window_start, current_day, window_type) ==
    IF window_type = "sunset" THEN window_start + Hours24
    ELSE current_day.last_observation_time

WindowEnd(window_start, current_day, window_type) ==
    IF window_type = "24hr" THEN window_start + Hours24
    ELSE current_day.last_observation_time

\* the record of the pair (previous_day, current_day), the i-th day (from 0)
\* a[1]/a[2] - b[1]/b[2] of two ratios with the same denominator
RatDiff(a, b) == <<a[1] - b[1], a[2]>>

\* np.sign
Sign(x) == IF x > 0 THEN 1 ELSE IF x < 0 THEN 0 - 1 ELSE 0

\* np.power(num / den, 1/3) of a ratio that is not negative, in hundredths
\* rounded down
Cbrt(num, den) ==
    LET x == Millionths(num, den)
    IN  CHOOSE k \in 0..1200 : k * k * k <= x /\ x < (k + 1) * (k + 1) * (k + 1)

\* np.log(num / den) of a positive ratio, in ten-thousandths: the ratio is
\* halved or doubled m times into [1, 2), where the logarithm is
\* 2 * (y + y^3/3 + y^5/5 + y^7/7) with y = (x - 1) / (x + 1); ln 2 = 0.6931
Ln(num, den) ==
    LET RECURSIVE Reduced(_, _, _)
        Reduced(n, d, m) ==
            IF n >= 2 * d THEN Reduced(n, 2 * d, m + 1)
            ELSE IF n < d THEN Reduced(2 * n, d, m - 1)
            ELSE <<n, d, m>>
        r == Reduced(num, den, 0)
        y == ((r[1] - r[2]) * 10000) \div (r[1] + r[2])
        y2 == (y * y) \div 10000
        y3 == (y * y2) \div 10000
        y5 == (y3 * y2) \div 10000
        y7 == (y5 * y2) \div 10000
    IN  r[3] * 6931 + 2 * (y + y3 \div 3 + y5 \div 5 + y7 \div 7)

\* np.sign(diff) * np.power(abs(diff), 1/3), of a difference <<num, den>>
diff_cbrt(diff) == Sign(diff[1]) * Cbrt(Abs(diff[1]), diff[2])

\* np.sign(diff) * np.log(abs(diff) + 1)
diff_log(diff) == Sign(diff[1]) * Ln(Abs(diff[1]) + diff[2], diff[2])

\* the transformed response variables of a day pair (both daily scripts)
Transformed(current_day, previous_day) ==
    LET diff == <<current_day.max_butterflies - previous_day.max_butterflies, 1>>
        diff_95th == RatDiff(current_day.butterflies_95th_percentile,
                             previous_day.butterflies_95th_percentile)
        diff_top3 == RatDiff(current_day.butterflies_top3_mean,
                             previous_day.butterflies_top3_mean)
    IN  [butterfly_diff_cbrt |-> diff_cbrt(diff),
         butterfly_diff_log |-> diff_log(diff),
         butterfly_diff_95th_cbrt |-> diff_cbrt(diff_95th),
         butterfly_diff_95th_log |-> diff_log(diff_95th),
         butterfly_diff_top3_cbrt |-> diff_cbrt(diff_top3),
         butterfly_diff_top3_log |-> diff_log(diff_top3)]

DynamicLagRecord(deployment_id, i, current_day, previous_day, butterfly, temp_df, wind_db, window_type) ==
    LET window_start == WindowStart(previous_day, current_day)
        window_end == WindowEnd(window_start, current_day, window_type)
        temp_metrics == calculate_dynamic_temperature_metrics(
                            temp_df, deployment_id, window_start, window_end)
        wind_metrics == IF wind_db # "none"
                        THEN calculate_dynamic_wind_metrics(wind_db, window_start, window_end)
                        ELSE _get_empty_wind_metrics
        sun_metrics == calculate_dynamic_sun_exposure(
                            butterfly, deployment_id, window_start, window_end)
    IN  [deployment_id |-> deployment_id,
         date_t |-> current_day.date,
         date_t_1 |-> previous_day.date,
         observation_order_t |-> i + 1,
         day_sequence |-> current_day.day_sequence,
         window_start |-> window_start,
         window_end |-> window_end,
         lag_duration_hours |-> <<window_end - window_start, 3600>>,
         metrics_complete |-> GeometricMean3(temp_metrics.temp_data_coverage,
                                             wind_metrics.wind_data_coverage,
                                             sun_metrics.butterfly_data_coverage),
         temp_data_coverage |-> temp_metrics.temp_data_coverage,
         wind_data_coverage |-> wind_metrics.wind_data_coverage,
         butterfly_data_coverage |-> sun_metrics.butterfly_data_coverage,
         max_butterflies_t |-> current_day.max_butterflies,
         butterflies_95th_percentile_t |-> current_day.butterflies_95th_percentile,
         butterflies_top3_mean_t |-> current_day.butterflies_top3_mean,
         sum_butterflies_direct_sun_t |-> current_day.sum_butterflies_direct_sun,
         time_of_max_t |-> current_day.time_of_max,
         max_butterflies_t_1 |-> previous_day.max_butterflies,
         butterflies_95th_percentile_t_1 |-> previous_day.butterflies_95th_percentile,
         butterflies_top3_mean_t_1 |-> previous_day.butterflies_top3_mean,
         time_of_max_t_1 |-> previous_day.time_of_max,
         temp_max |-> temp_metrics.temp_max,
         temp_min |-> temp_metrics.temp_min,
         temp_at_max_count_t_1 |-> previous_day.temp_at_max_count,
         wind_max_gust |-> wind_metrics.wind_max_gust,
         wind_minutes_above_2ms |-> wind_metrics.wind_minutes_above_2ms,
         wind_obs_count |-> wind_metrics.wind_obs_count,
         sum_butterflies_direct_sun |-> sun_metrics.sum_butterflies_direct_sun,
         days_since_oct15_t |-> current_day.days_since_oct15,
         butterfly_diff |-> current_day.max_butterflies - previous_day.max_butterflies,
         butterfly_diff_95th |-> RatDiff(current_day.butterflies_95th_percentile,
                                         previous_day.butterflies_95th_percentile),
         butterfly_diff_top3 |-> RatDiff(current_day.butterflies_top3_mean,
                                         previous_day.butterflies_top3_mean)]
        @@ Transformed(current_day, previous_day)

\* PairEmitted without the consecutive-day check
PairEmitted_BridgesGaps(current_day, previous_day) ==
    ~(current_day.max_butterflies = 0 /\ previous_day.max_butterflies = 0)

\* PairEmitted without the zero-pair suppression
PairEmitted_KeepsZeroPairs(current_day, previous_day) ==
    current_day.date - previous_day.date = 1

\* PairEmitted that drops a pair as soon as one day has no butterflies
PairEmitted_DropsAnyZero(current_day, previous_day) ==
    /\ current_day.date - previous_day.date = 1
    /\ ~(current_day.max_butterflies = 0 \/ previous_day.max_butterflies = 0)

\* a pair of adjacent valid days is emitted when the days are consecutive
\* and not both without butterflies
PairEmitted(current_day, previous_day) ==
    LET date_diff == current_day.date - previous_day.date
    IN  /\ ~(date_diff # 1)
        /\ ~(current_day.max_butterflies = 0 /\ previous_day.max_butterflies = 0)

\* create_dynamic_lag_pairs whose sunset mode skips a pair after a day
\* without butterflies
create_dynamic_lag_pairs_SunsetNeedsPeak(daily, butterfly, temp_df, deployments, wind_dir, window_type) ==
    LET meters == wind_meter_map(deployments)
        ids == UniqueIds(daily)
        PairsOf(deployment_id) ==
            LET deployment_days == DeploymentDays(daily, deployment_id)
                wind_meter_name == IF deployment_id \in DOMAIN meters
                                   THEN meters[deployment_id] ELSE "none"
                wind_db == IF wind_meter_name \in db_files(wind_dir)
                           THEN wind_dir ELSE "none"
                idx == IF Len(deployment_days) < 2 THEN <<>>
                       ELSE SelectSeq([i \in 1..(Len(deployment_days) - 1) |-> i],
                                LAMBDA i :
                                    /\ PairEmitted(deployment_days[i + 1],
                                                   deployment_days[i])
                                    /\ window_type = "sunset" =>
                                          deployment_days[i].max_butterflies # 0)
            IN  [n \in 1..Len(idx) |->
                    DynamicLagRecord(deployment_id, idx[n], deployment_days[idx[n] + 1],
                                     deployment_days[idx[n]], butterfly, temp_df,
                                     wind_db, window_type)]
        RECURSIVE Cat(_)
        Cat(n) == IF n > Len(ids) THEN <<>> ELSE PairsOf(ids[n]) \o Cat(n + 1)
        lag_pairs == Cat(1)
    IN  IF lag_pairs = <<>> THEN Raise("ValueError")
        ELSE Ok(MergeMetadata(lag_pairs, deployments))

create_dynamic_lag_pairs(daily, butterfly, temp_df, deployments, wind_dir, window_type) ==
    LET meters == wind_meter_map(deployments)
        ids == UniqueIds(daily)
        PairsOf(deployment_id) ==
            LET deployment_days == DeploymentDays(daily, deployment_id)
                wind_meter_name == IF deployment_id \in DOMAIN meters
                                   THEN meters[deployment_id] ELSE "none"
                wind_db == IF wind_meter_name \in db_files(wind_dir)
                           THEN wind_dir ELSE "none"
                idx == IF Len(deployment_days) < 2 THEN <<>>
                       ELSE SelectSeq([i \in 1..(Len(deployment_days) - 1) |-> i],
                                LAMBDA i : PairEmitted(deployment_days[i + 1],
                                                       deployment_days[i]))
            IN  [n \in 1..Len(idx) |->
                    DynamicLagRecord(deployment_id, idx[n], deployment_days[idx[n] + 1],
                                     deployment_days[idx[n]], butterfly, temp_df,
                                     wind_db, window_type)]
        RECURSIVE Cat(_)
        Cat(n) == IF n > Len(ids) THEN <<>> ELSE PairsOf(ids[n]) \o Cat(n + 1)
        lag_pairs == Cat(1)
    IN  IF lag_pairs = <<>> THEN Raise("ValueError")
        ELSE Ok(MergeMetadata(lag_pairs, deployments))


----------------------------------------------------------------------------
(* data_prep_daily_lag: daily wind metrics and lag pairs *)

_get_empty_wind_metrics_daily ==
    [wind_max_gust |-> NaN, wind_minutes_above_2ms |-> 0, wind_obs_count |-> 0]

_query_daily_wind_metrics(dir, start_time, end_time) ==
    LET wind_data == WindBetween(dir, start_time, end_time)
    IN  IF QueryFails(dir) THEN _get_empty_wind_metrics_daily
        ELSE IF wind_data = {} THEN _get_empty_wind_metrics_daily
        ELSE [wind_max_gust |-> Max({GustAt(t) : t \in wind_data}),
              wind_minutes_above_2ms |-> Cardinality({t \in wind_data : GustAt(t) >= 2}),
              wind_obs_count |-> Cardinality(wind_data)]

add_daily_wind_metrics(daily, deployments, wind_dir) ==
    LET meters == wind_meter_map(deployments)
        Wind(row) ==
            IF row.deployment_id \notin DOMAIN meters
                THEN _get_empty_wind_metrics_daily
            ELSE IF meters[row.deployment_id] \notin db_files(wind_dir)
                THEN _get_empty_wind_metrics_daily
            ELSE _query_daily_wind_metrics(wind_dir, At(row.date, 6, 0, 0),
                                           At(row.date, 18, 0, 0))
    IN  IF daily = <<>> THEN Raise("ValueError")
        ELSE Ok([i \in 1..Len(daily) |-> daily[i] @@ Wind(daily[i])])

DailyLagRecord(deployment_id, i, current_day, previous_day) ==
    [deployment_id |-> deployment_id,
     date_t |-> current_day.date,
     date_t_1 |-> previous_day.date,
     observation_order_t |-> i + 1,
     max_butterflies_t |-> current_day.max_butterflies,
     butterflies_95th_percentile_t |-> current_day.butterflies_95th_percentile,
     butterflies_top3_mean_t |-> current_day.butterflies_top3_mean,
     sum_butterflies_direct_sun_t |-> current_day.sum_butterflies_direct_sun,
     time_of_max_t |-> current_day.time_of_max,
     max_butterflies_t_1 |-> previous_day.max_butterflies,
     butterflies_95th_percentile_t_1 |-> previous_day.butterflies_95th_percentile,
     butterflies_top3_mean_t_1 |-> previous_day.butterflies_top3_mean,
     sum_butterflies_direct_sun_t_1 |-> previous_day.sum_butterflies_direct_sun,
     time_of_max_t_1 |-> previous_day.time_of_max,
     temp_max_t_1 |-> previous_day.temp_max,
     temp_min_t_1 |-> previous_day.temp_min,
     temp_at_max_count_t_1 |-> previous_day.temp_at_max_count,
     wind_max_gust_t_1 |-> previous_day.wind_max_gust,
     wind_minutes_above_2ms_t_1 |-> previous_day.wind_minutes_above_2ms,
     days_since_oct15_t |-> current_day.days_since_oct15,
     butterfly_diff |-> current_day.max_butterflies - previous_day.max_butterflies,
     butterfly_diff_95th |-> RatDiff(current_day.butterflies_95th_percentile,
                                     previous_day.butterflies_95th_percentile),
     butterfly_diff_top3 |-> RatDiff(current_day.butterflies_top3_mean,
                                     previous_day.butterflies_top3_mean)]
    @@ Transformed(current_day, previous_day)

create_lag_pairs(daily, deployments) ==
    LET ids == UniqueIds(daily)
        PairsOf(deployment_id) ==
            LET deployment_days == DeploymentDays(daily, deployment_id)
                idx == IF Len(deployment_days) < 2 THEN <<>>
                       ELSE SelectSeq([i \in 1..(Len(deployment_days) - 1) |-> i],
                                LAMBDA i : PairEmitted(deployment_days[i + 1],
                                                       deployment_days[i]))
            IN  [n \in 1..Len(idx) |->
                    DailyLagRecord(deployment_id, idx[n], deployment_days[idx[n] + 1],
                                   deployment_days[idx[n]])]
        RECURSIVE Cat(_)
        Cat(n) == IF n > Len(ids) THEN <<>> ELSE PairsOf(ids[n]) \o Cat(n + 1)
        lag_pairs == Cat(1)
    IN  IF lag_pairs = <<>> THEN Raise("ValueError")
        ELSE Ok(MergeMetadata(lag_pairs, deployments))

----------------------------------------------------------------------------
(* data_prep_lag: the 30-minute lag analysis *)

lag_minutes == 30
tolerance_minutes == 5


\* the pairs of one deployment-day, group sorted by timestamp, for a lag of
\* lag minutes and a tolerance of tolerance minutes
LagPairsOfGroup(group, lag, tolerance, remove_zero_pairs) ==
    LET Candidates(cur) ==
            {j \in 1..Len(group) :
                Abs(group[j].timestamp - (cur.timestamp - lag * 60))
                    <= tolerance * 60}
        Closest(cur) ==
            CHOOSE j \in Candidates(cur) :
                \A k \in Candidates(cur) :
                    LET dj == Abs(group[j].timestamp - (cur.timestamp - lag * 60))
                        dk == Abs(group[k].timestamp - (cur.timestamp - lag * 60))
                    IN  dj < dk \/ (dj = dk /\ j <= k)
        Paired(cur) ==
            /\ Candidates(cur) # {}
            /\ ~(/\ remove_zero_pairs
                 /\ cur.total_butterflies = 0
                 /\ group[Closest(cur)].total_butterflies = 0)
        idx == SelectSeq([i \in 1..Len(group) |-> i], LAMBDA i : Paired(group[i]))
    IN  [n \in 1..Len(idx) |-> <<group[idx[n]], group[Closest(group[idx[n]])]>>]

\* np.sign(d) * np.log(np.maximum(np.abs(d), 0.1)) of a whole difference d
difference_log(d) == Sign(d) * Ln(IF Abs(d) = 0 THEN 1 ELSE 10 * Abs(d), 10)

LagRecord(current_obs, lag_obs) ==
    [deployment_day |-> <<current_obs.deployment_id, DateOf(current_obs.timestamp)>>,
     deployment_id |-> current_obs.deployment_id,
     timestamp_t |-> current_obs.timestamp,
     image_filename_t |-> current_obs.image_filename,
     total_butterflies_t |-> current_obs.total_butterflies,
     temperature_t |-> current_obs.temperature,
     timestamp_t_lag |-> lag_obs.timestamp,
     image_filename_t_lag |-> lag_obs.image_filename,
     total_butterflies_t_lag |-> lag_obs.total_butterflies,
     temperature_t_lag |-> lag_obs.temperature,
     actual_lag_minutes |-> <<current_obs.timestamp - lag_obs.timestamp, 60>>,
     butterfly_difference |-> current_obs.total_butterflies - lag_obs.total_butterflies,
     butterfly_difference_cbrt |->
         diff_cbrt(<<current_obs.total_butterflies - lag_obs.total_butterflies, 1>>),
     butterfly_difference_log |->
         difference_log(current_obs.total_butterflies - lag_obs.total_butterflies)]

\* create_lag_analysis that groups the observations by deployment alone
create_lag_analysis_GroupsByDeployment(df, lag, remove_zero_pairs, tolerance) ==
    LET K == {<<df[i].deployment_id, 0>> : i \in 1..Len(df)}
        keys == SortByKey(K, [k \in K |-> DeploymentRank(k[1]) * (MaxDays + 2) + k[2]])
        GroupOf(k) ==
            SortSeq(SelectSeq(df, LAMBDA r : r.deployment_id = k[1]
                                            /\ 0 = k[2]),
                    LAMBDA a, b : a.timestamp < b.timestamp)
        RECURSIVE Cat(_)
        Cat(n) == IF n > Len(keys) THEN <<>>
                  ELSE LagPairsOfGroup(GroupOf(keys[n]), lag, tolerance, remove_zero_pairs)
                       \o Cat(n + 1)
        pairs == Cat(1)
    IN  IF df = <<>> THEN Raise("ValueError")
        ELSE IF pairs # <<>> /\ "temperature" \notin DOMAIN df[1] THEN Raise("KeyError")
        ELSE Ok([n \in 1..Len(pairs) |-> LagRecord(pairs[n][1], pairs[n][2])])

create_lag_analysis(df, lag, remove_zero_pairs, tolerance) ==
    LET K == {<<df[i].deployment_id, DateOf(df[i].timestamp)>> : i \in 1..Len(df)}
        keys == SortByKey(K, [k \in K |-> DeploymentRank(k[1]) * (MaxDays + 2) + k[2]])
        GroupOf(k) ==
            SortSeq(SelectSeq(df, LAMBDA r : r.deployment_id = k[1]
                                            /\ DateOf(r.timestamp) = k[2]),
                    LAMBDA a, b : a.timestamp < b.timestamp)
        RECURSIVE Cat(_)
        Cat(n) == IF n > Len(keys) THEN <<>>
                  ELSE LagPairsOfGroup(GroupOf(keys[n]), lag, tolerance, remove_zero_pairs)
                       \o Cat(n + 1)
        pairs == Cat(1)
    IN  IF df = <<>> THEN Raise("ValueError")
        ELSE IF pairs # <<>> /\ "temperature" \notin DOMAIN df[1] THEN Raise("KeyError")
        ELSE Ok([n \in 1..Len(pairs) |-> LagRecord(pairs[n][1], pairs[n][2])])

\* the except clause re-raises every error of the query as RuntimeError
_query_wind_metrics(dir, start_time, end_time) ==
    LET wind_data == WindBetween(dir, start_time, end_time)
    IN  IF QueryFails(dir) THEN Raise("RuntimeError")
        ELSE IF wind_data = {} THEN Ok([max_gust |-> NaN, wind_obs_count |-> 0])
        ELSE Ok([max_gust |-> Max({GustAt(t) : t \in wind_data}),
                 wind_obs_count |-> Cardinality(wind_data)])

add_wind_data(lag, deployments, wind_dir) ==
    LET meters == wind_meter_map(deployments)
        HasDb(row) == meters[row.deployment_id] \in db_files(wind_dir)
        Query(row) == _query_wind_metrics(wind_dir, row.timestamp_t_lag, row.timestamp_t)
        Wind(row) ==
            IF ~HasDb(row) THEN [max_gust |-> NaN, wind_obs_count |-> 0]
            ELSE Query(row).value
        wind_df == [i \in 1..Len(lag) |-> lag[i] @@ Wind(lag[i])]
        Issue(row) ==
            /\ HasDb(row)
            /\ \/ row.wind_obs_count < lag_minutes - 5
               \/ row.wind_obs_count > lag_minutes + 5
        \* an issue removes every row of its deployment_day and timestamp_t
        Problematic(row) ==
            \E i \in 1..Len(wind_df) :
                /\ Issue(wind_df[i])
                /\ wind_df[i].deployment_day = row.deployment_day
                /\ wind_df[i].timestamp_t = row.timestamp_t
    IN  IF lag = <<>> THEN Raise("ValueError")
        ELSE IF \E i \in 1..Len(lag) : lag[i].deployment_id \notin DOMAIN meters
            THEN Raise("ValueError")
        ELSE IF \E i \in 1..Len(lag) : HasDb(lag[i]) /\ Query(lag[i]).status # "ok"
            THEN Raise("RuntimeError")
        ELSE Ok(SelectSeq(wind_df, LAMBDA r : ~Problematic(r)))

add_deployment_metadata(df, deployments) ==
    LET merged_df == MergeMetadata(df, deployments)
    IN  IF df = <<>> THEN Raise("ValueError")
        ELSE IF Len(merged_df) # Len(df) THEN Raise("RuntimeError")
        ELSE Ok(merged_df)


----------------------------------------------------------------------------
(* The scripts' main() as a state machine *)

Scripts == {"dynamic", "daily", "lag"}

\* --min-photos / --max-photos given on the command line
PhotoRanges == {<<2, 3>>, <<1, 2>>}

\* the state at the entry of main(), for a json-dir among dirs and
\* photo-count arguments among ranges
Start(dirs, ranges) ==
    /\ script \in Scripts
    /\ args \in ranges
    /\ script = "lag" => args = <<2, 3>>
    /\ json_dir \in dirs
    /\ pc = "start"
    /\ deployments_file = "unread"
    /\ temp_file = "unread"
    /\ wind_db_dir = "unread"
    /\ butterfly_df = <<>>
    /\ temp_24hr_df = {}
    /\ daily_df = <<>>
    /\ valid_days = <<>>
    /\ lag_df = <<>>
    /\ lag_df_sunset = <<>>
    /\ written = {}
    /\ error = "none"
    /\ exit_code = -1
    /\ connections = {}
    /\ arg = [fn |-> "main"]
    /\ ret = <<>>

Init == Start(JsonDirs, PhotoRanges)

\* the except clause of main(): print the error, return 1
Fail(call) == pc' = "exit" /\ error' = call /\ exit_code' = 1

\* data_prep_lag.main prints the error and returns None
FailQuietly(call) == pc' = "exit" /\ error' = call /\ exit_code' = 0

Finish == pc' = "exit" /\ error' = "none" /\ exit_code' = 0

Goto(label) == pc' = label /\ UNCHANGED <<error, exit_code>>

\* pd.read_csv(args.deployments_file), the file being one of files
ReadDeployments(files) ==
    /\ pc = "start"
    /\ \E f \in files :
          /\ deployments_file' = f
          /\ IF f = "missing" THEN Fail("read_csv") ELSE Goto("loaded")
    /\ UNCHANGED <<connections, arg, ret, script, args, json_dir, temp_file, wind_db_dir, butterfly_df,
                   temp_24hr_df, daily_df, valid_days, lag_df, lag_df_sunset, written>>

LoadDeployments == ReadDeployments(DeploymentFiles)

LoadAnyDeployments == ReadDeployments(AnyDeploymentFiles)

ProcessDeployments ==
    /\ pc = "loaded"
    /\ LET r == CASE script = "dynamic" -> process_deployments(json_dir)
                  [] script = "daily" -> process_deployments_daily(json_dir)
                  [] script = "lag" -> process_deployments_lag(json_dir)
       IN  IF r.status # "ok"
               THEN Fail("process_deployments") /\ UNCHANGED butterfly_df
           ELSE IF r.value = <<>>
               THEN /\ IF script = "lag" THEN FailQuietly("no_butterfly_data")
                                         ELSE Fail("no_butterfly_data")
                    /\ UNCHANGED butterfly_df
           ELSE Goto("processed") /\ butterfly_df' = r.value
    /\ UNCHANGED <<connections, arg, ret, script, args, json_dir, deployments_file, temp_file, wind_db_dir,
                   temp_24hr_df, daily_df, valid_days, lag_df, lag_df_sunset, written>>

AddTemperatureData ==
    /\ pc = "processed"
    /\ \E f \in TempFiles :
          /\ temp_file' = f
          /\ CASE script = "dynamic" ->
                    LET r == add_temperature_data(butterfly_df, f, json_dir)
                    IN  IF r.status # "ok"
                        THEN Fail("add_temperature_data")
                             /\ UNCHANGED <<butterfly_df, temp_24hr_df>>
                        ELSE /\ Goto("joined")
                             /\ butterfly_df' = r.value.merged_df
                             /\ temp_24hr_df' = r.value.temp_df
               [] script = "daily" ->
                    LET r == add_temperature_data_daily(butterfly_df, f, json_dir)
                    IN  IF r.status # "ok"
                        THEN Fail("add_temperature_data")
                             /\ UNCHANGED <<butterfly_df, temp_24hr_df>>
                        ELSE /\ Goto("joined")
                             /\ butterfly_df' = r.value
                             /\ UNCHANGED temp_24hr_df
               [] script = "lag" ->
                    \* on failure the run goes on with the observations as they are
                    LET r == add_temperature_data_lag(butterfly_df, f, json_dir)
                    IN  /\ Goto("joined")
                        /\ butterfly_df' = IF r.status = "ok" THEN r.value ELSE butterfly_df
                        /\ UNCHANGED temp_24hr_df
    /\ UNCHANGED <<connections, arg, ret, script, args, json_dir, deployments_file, wind_db_dir,
                   daily_df, valid_days, lag_df, lag_df_sunset, written>>

CreateDailyAggregates ==
    /\ pc = "joined"
    /\ script \in {"dynamic", "daily"}
    /\ LET r == IF script = "dynamic"
                THEN create_daily_aggregates_with_sunset(butterfly_df)
                ELSE create_daily_aggregates(butterfly_df)
       IN  IF r.status # "ok"
           THEN Fail("create_daily_aggregates") /\ UNCHANGED daily_df
           ELSE Goto("aggregated") /\ daily_df' = r.value
    /\ UNCHANGED <<connections, arg, ret, script, args, json_dir, deployments_file, temp_file, wind_db_dir,
                   butterfly_df, temp_24hr_df, valid_days, lag_df, lag_df_sunset,
                   written>>

AddDailyWindMetrics ==
    /\ pc = "aggregated"
    /\ script = "daily"
    /\ \E w \in WindDirs :
          /\ wind_db_dir' = w
          /\ LET r == add_daily_wind_metrics(daily_df, DeploymentRows(deployments_file), w)
             IN  IF r.status # "ok"
                 THEN Fail("add_daily_wind_metrics") /\ UNCHANGED daily_df
                 ELSE Goto("wind_added") /\ daily_df' = r.value
    /\ UNCHANGED <<connections, arg, ret, script, args, json_dir, deployments_file, temp_file,
                   butterfly_df, temp_24hr_df, valid_days, lag_df, lag_df_sunset,
                   written>>

\* filter_valid_days; the daily script then saves the daily summaries
FilterValidDays ==
    /\ \/ pc = "aggregated" /\ script = "dynamic"
       \/ pc = "wind_added" /\ script = "daily"
    /\ valid_days' = filter_valid_days(daily_df, args[1], args[2])
    /\ written' = IF script = "daily" THEN written \cup {"daily_file"} ELSE written
    /\ Goto("filtered")
    /\ UNCHANGED <<connections, arg, ret, script, args, json_dir, deployments_file, temp_file, wind_db_dir,
                   butterfly_df, temp_24hr_df, daily_df, lag_df, lag_df_sunset>>

\* the 24-hour pass of the dynamic script, and the save of its dataset
CreateLagPairs24hr ==
    /\ pc = "filtered"
    /\ script = "dynamic"
    /\ \E w \in WindDirs :
          /\ wind_db_dir' = w
          /\ LET r == create_dynamic_lag_pairs(valid_days, butterfly_df, temp_24hr_df,
                          DeploymentRows(deployments_file), w, "24hr")
             IN  IF r.status # "ok"
                 THEN Fail("create_dynamic_lag_pairs") /\ UNCHANGED <<lag_df, written>>
                 ELSE /\ Goto("saved_24hr")
                      /\ lag_df' = r.value
                      /\ written' = written \cup {"output_24hr"}
    /\ UNCHANGED <<connections, arg, ret, script, args, json_dir, deployments_file, temp_file,
                   butterfly_df, temp_24hr_df, daily_df, valid_days, lag_df_sunset>>

\* the sunset pass, the save of its dataset, and the end of main()
CreateLagPairsSunset ==
    /\ pc = "saved_24hr"
    /\ script = "dynamic"
    /\ LET r == create_dynamic_lag_pairs(valid_days, butterfly_df, temp_24hr_df,
                    DeploymentRows(deployments_file), wind_db_dir, "sunset")
       IN  IF r.status # "ok"
           THEN Fail("create_dynamic_lag_pairs") /\ UNCHANGED <<lag_df_sunset, written>>
           ELSE /\ Finish
                /\ lag_df_sunset' = r.value
                /\ written' = written \cup {"output_sunset"}
    /\ UNCHANGED <<connections, arg, ret, script, args, json_dir, deployments_file, temp_file, wind_db_dir,
                   butterfly_df, temp_24hr_df, daily_df, valid_days, lag_df>>

\* the lag pairs of the daily script, the save, and the end of main()
CreateLagPairs ==
    /\ pc = "filtered"
    /\ script = "daily"
    /\ LET r == create_lag_pairs(valid_days, DeploymentRows(deployments_file))
       IN  IF r.status # "ok"
           THEN Fail("create_lag_pairs") /\ UNCHANGED <<lag_df, written>>
           ELSE /\ Finish
                /\ lag_df' = r.value
                /\ written' = written \cup {"output_file"}
    /\ UNCHANGED <<connections, arg, ret, script, args, json_dir, deployments_file, temp_file, wind_db_dir,
                   butterfly_df, temp_24hr_df, daily_df, valid_days, lag_df_sunset>>

\* data_prep_lag: create_lag_analysis with the default arguments
CreateLagAnalysis ==
    /\ pc = "joined"
    /\ script = "lag"
    /\ LET r == create_lag_analysis(butterfly_df, lag_minutes, TRUE, tolerance_minutes)
       IN  IF r.status # "ok"
           THEN FailQuietly("create_lag_analysis") /\ UNCHANGED lag_df
           ELSE Goto("lagged") /\ lag_df' = r.value
    /\ UNCHANGED <<connections, arg, ret, script, args, json_dir, deployments_file, temp_file, wind_db_dir,
                   butterfly_df, temp_24hr_df, daily_df, valid_days, lag_df_sunset,
                   written>>

AddWindData ==
    /\ pc = "lagged"
    /\ script = "lag"
    /\ \E w \in WindDirs :
          /\ wind_db_dir' = w
          /\ LET r == add_wind_data(lag_df, DeploymentRows(deployments_file), w)
             IN  IF r.status # "ok"
                     THEN FailQuietly("add_wind_data") /\ UNCHANGED lag_df
                 ELSE IF r.value = <<>>
                     THEN FailQuietly("no_wind_rows") /\ lag_df' = r.value
                 ELSE Goto("wind_added") /\ lag_df' = r.value
    /\ UNCHANGED <<connections, arg, ret, script, args, json_dir, deployments_file, temp_file,
                   butterfly_df, temp_24hr_df, daily_df, valid_days, lag_df_sunset,
                   written>>

\* add_deployment_metadata and export_final_dataset, and the end of main()
ExportFinalDataset ==
    /\ pc = "wind_added"
    /\ script = "lag"
    /\ LET r == add_deployment_metadata(lag_df, DeploymentRows(deployments_file))
       IN  lag_df' = IF r.status = "ok" THEN r.value ELSE lag_df
    /\ written' = written \cup {"output_file"}
    /\ Finish
    /\ UNCHANGED <<connections, arg, ret, script, args, json_dir, deployments_file, temp_file, wind_db_dir,
                   butterfly_df, temp_24hr_df, daily_df, valid_days, lag_df_sunset>>

Next ==
    \/ LoadDeployments
    \/ ProcessDeployments
    \/ AddTemperatureData
    \/ CreateDailyAggregates
    \/ AddDailyWindMetrics
    \/ FilterValidDays
    \/ CreateLagPairs24hr
    \/ CreateLagPairsSunset
    \/ CreateLagPairs
    \/ CreateLagAnalysis
    \/ AddWindData
    \/ ExportFinalDataset

Spec == Init /\ [][Next]_vars

\* the same scripts run on any of the deployment files
\* directories with images whose names carry no timestamp and images whose
\* cells carry no count; an undated name occurs once in a file
IngestDirs ==
    {j \in JsonDirsOf({"none", "peak", "undated", "garbled", "garbled_night",
                       "garbled_offcadence"}) :
        \A d \in Deployments :
            Cardinality({k \in DayKeys : k[1] = d /\ j[k] = "undated"}) <= 1}

InitIngest == Start(IngestDirs, {<<2, 3>>})

SpecIngest == InitIngest /\ [][Next]_vars

\* directories with images around the ends of the night periods
InitNight == Start(JsonDirsOf({"none", "peak", "dusk"}), {<<2, 3>>})

SpecNight == InitNight /\ [][Next]_vars

\* directories with days whose counts differ by one butterfly
InitSteps == Start(JsonDirsOf({"none", "zeros", "peak", "step"}), {<<2, 3>>})

SpecSteps == InitSteps /\ [][Next]_vars

\* directories in which every day of both deployments has daytime images,
\* without butterflies or with a peak
SeasonDirs == [DayKeys -> {"zeros", "peak"}]

InitSeason == Start(SeasonDirs, {<<2, 3>>})

SpecSeason == InitSeason /\ [][Next]_vars

NextAnyDeployments ==
    \/ LoadAnyDeployments
    \/ ProcessDeployments
    \/ AddTemperatureData
    \/ CreateDailyAggregates
    \/ AddDailyWindMetrics
    \/ FilterValidDays
    \/ CreateLagPairs24hr
    \/ CreateLagPairsSunset
    \/ CreateLagPairs
    \/ CreateLagAnalysis
    \/ AddWindData
    \/ ExportFinalDataset

\* days without butterflies and days with a peak, default photo range
InitAnyDeployments == Start(JsonDirsOf({"none", "zeros", "peak"}), {<<2, 3>>})

SpecAnyDeployments == InitAnyDeployments /\ [][NextAnyDeployments]_vars


----------------------------------------------------------------------------
(* combine_deployments.py: the deployments CSV merged from two sources *)
(* Every cell of a CSV file is a sequence of characters.                *)

\* the code point of a character of a deployment id
Ord(c) == CASE c \in Digits -> 48 + DigitVal(c) [] c = "C" -> 67 [] c = "S" -> 83

\* a < b on Python strings
StrLt(a, b) ==
    \/ Len(a) < Len(b) /\ \A j \in 1..Len(a) : a[j] = b[j]
    \/ \E i \in 1..Len(a) :
          /\ i <= Len(b)
          /\ \A j \in 1..(i - 1) : a[j] = b[j]
          /\ Ord(a[i]) < Ord(b[i])

qgis_columns ==
    <<"camera_name", "wind_meter_name", "Deployed_time", "Recovered_time", "notes",
      "height_m", "horizontal_dist_to_cluster_m", "view_direction", "cluster_count",
      "deployment_id", "status", "photo_interval_min", "monarchs_present", "youtube_url",
      "latitude", "longitude">>

label_columns == <<"Status", "Percent Complete", "Observer", "Effort", "Notes", "Youtube Link">>

label_column_mapping ==
    [c \in {"Status", "Notes", "Youtube Link"} |->
        CASE c = "Status" -> "label_status" [] c = "Notes" -> "label_notes"
          [] c = "Youtube Link" -> "label_youtube_url"]

output_columns ==
    qgis_columns \o <<"label_status", "Percent Complete", "Observer", "Effort",
                      "label_notes", "label_youtube_url">>

\* the value csv.DictReader gives a column that a short row has no field for
NoValue == <<"None">>

\* csv.DictWriter writes None as the empty string
WrittenCell(v) == IF v = NoValue THEN <<>> ELSE v

\* the rows of a file by deployment id, the last row of an id winning,
\* rows with an empty or missing id left out
ById(rows, id_column) ==
    [id \in {rows[i][id_column] : i \in 1..Len(rows)} \ {<<>>, NoValue} |->
        rows[Max({i \in 1..Len(rows) : rows[i][id_column] = id})]]

\* combine_deployment_data without the deployment_id of an id that only the
\* label file has
combine_deployment_data_LabelOnlyIdLost(qgis_rows, label_rows) ==
    LET qgis_data == ById(qgis_rows, "deployment_id")
        label_data == ById(label_rows, "Deployment ID")
        all_ids == DOMAIN qgis_data \cup DOMAIN label_data
        sorted == SortByKey(all_ids,
                      [id \in all_ids |-> Cardinality({x \in all_ids : StrLt(x, id)})])
        Get(row, col) == IF col \in DOMAIN row THEN row[col] ELSE <<>>
        Qgis(id) ==
            [col \in SeqToSet(qgis_columns) |->
                IF id \in DOMAIN qgis_data THEN Get(qgis_data[id], col) ELSE <<>>]
        Label(id) ==
            IF id \in DOMAIN label_data
            THEN [col \in {"label_status", "label_notes", "label_youtube_url"} |->
                     Get(label_data[id],
                         CHOOSE c \in DOMAIN label_column_mapping :
                             label_column_mapping[c] = col)]
                 @@ [col \in {"Percent Complete", "Observer", "Effort"} |->
                        Get(label_data[id], col)]
            ELSE [col \in {"label_status", "Percent Complete", "Observer", "Effort",
                           "label_notes", "label_youtube_url"} |-> <<>>]
        combined_row(id) == Qgis(id) @@ Label(id)
    IN  [fieldnames |-> output_columns,
         rows |-> [n \in 1..Len(sorted) |->
                     [col \in SeqToSet(output_columns) |->
                         WrittenCell(combined_row(sorted[n])[col])]]]

\* combine_deployment_data(): the content of data/deployments.csv, from the
\* rows of deployments_QGIS.csv and of deployments_label.csv
combine_deployment_data(qgis_rows, label_rows) ==
    LET qgis_data == ById(qgis_rows, "deployment_id")
        label_data == ById(label_rows, "Deployment ID")
        all_ids == DOMAIN qgis_data \cup DOMAIN label_data
        sorted == SortByKey(all_ids,
                      [id \in all_ids |-> Cardinality({x \in all_ids : StrLt(x, id)})])
        Get(row, col) == IF col \in DOMAIN row THEN row[col] ELSE <<>>
        Qgis(id) ==
            [col \in SeqToSet(qgis_columns) |->
                IF id \in DOMAIN qgis_data THEN Get(qgis_data[id], col)
                ELSE IF col = "deployment_id" THEN id ELSE <<>>]
        Label(id) ==
            IF id \in DOMAIN label_data
            THEN [col \in {"label_status", "label_notes", "label_youtube_url"} |->
                     Get(label_data[id],
                         CHOOSE c \in DOMAIN label_column_mapping :
                             label_column_mapping[c] = col)]
                 @@ [col \in {"Percent Complete", "Observer", "Effort"} |->
                        Get(label_data[id], col)]
            ELSE [col \in {"label_status", "Percent Complete", "Observer", "Effort",
                           "label_notes", "label_youtube_url"} |-> <<>>]
        combined_row(id) == Qgis(id) @@ Label(id)
    IN  [fieldnames |-> output_columns,
         rows |-> [n \in 1..Len(sorted) |->
                     [col \in SeqToSet(output_columns) |->
                         WrittenCell(combined_row(sorted[n])[col])]]]

----------------------------------------------------------------------------
(* Functions called on their own *)

\* the characters of the count labels
LabelChars == {"0", "1", "9", "-", "+", " ", "x"}

\* every label of at most MaxLabelLen characters, the labels of the fixed
\* table, and those with surrounding whitespace
Labels ==
    UNION {[1..n -> LabelChars] : n \in 0..MaxLabelLen}
        \cup DOMAIN COUNT_MAPPING
        \cup {<<" ">> \o l \o <<" ", " ">> : l \in DOMAIN COUNT_MAPPING}

\* the cells an image can have: at most two, each with a label and a flag
CellLabels == {<<"0">>, <<"1", "-", "9">>, <<"1", "0", "+">>, <<"-", "1">>, <<"x">>}
Cells == [count : CellLabels, directSun : BOOLEAN]
CellLists == {<<>>} \cup {<<c>> : c \in Cells} \cup {<<c, d>> : c \in Cells, d \in Cells}

\* the state at the call of one of calls, outside any run of main()
Called(calls) ==
    /\ arg \in calls
    /\ ret = <<>>
    /\ pc = "call"
    /\ script = "dynamic"
    /\ args = <<2, 3>>
    /\ json_dir = [k \in DayKeys |-> "none"]
    /\ deployments_file = "unread"
    /\ temp_file = "unread"
    /\ wind_db_dir = "unread"
    /\ butterfly_df = <<>>
    /\ temp_24hr_df = {}
    /\ daily_df = <<>>
    /\ valid_days = <<>>
    /\ lag_df = <<>>
    /\ lag_df_sunset = <<>>
    /\ written = {}
    /\ error = "none"
    /\ exit_code = -1
    /\ connections = {}

\* the call returns v
Return(v) ==
    /\ ret' = v
    /\ pc' = "return"
    /\ UNCHANGED <<connections, arg, script, args, json_dir, deployments_file, temp_file,
                   wind_db_dir, butterfly_df, temp_24hr_df, daily_df, valid_days,
                   lag_df, lag_df_sunset, written, error, exit_code>>

ParserCalls ==
    [fn : {"_map_count_to_number"}, count_text : Labels]
        \cup [fn : {"_process_cells"}, cells_data : CellLists]

MapCountToNumber ==
    /\ pc = "call"
    /\ arg.fn = "_map_count_to_number"
    /\ Return(_map_count_to_number(arg.count_text))

ProcessCells ==
    /\ pc = "call"
    /\ arg.fn = "_process_cells"
    /\ Return(_process_cells(arg.cells_data))

NextParser == MapCountToNumber \/ ProcessCells

SpecParser == Called(ParserCalls) /\ [][NextParser]_vars

\* observation tables in any row order: at each of four times of two days
\* SC1 has no observation or one with a total of 0 or 5, by day or by night
TableTimes == {At(0, 10, 0, 0), At(0, 14, 0, 0), At(0, 16, 0, 0), At(1, 12, 0, 0)}

TableRow(ts, total, night) ==
    [deployment_id |-> "SC1", image_filename |-> [prefix |-> "SC1", stamp |-> ts],
     timestamp |-> ts, date |-> DateOf(ts), total_butterflies |-> total,
     butterflies_direct_sun |-> 0, isNight |-> night, temperature |-> TempAt(ts)]

TableRows == {TableRow(ts, total, night) : ts \in TableTimes, total \in {0, 5},
                                           night \in BOOLEAN}

RowSets == {S \in SUBSET TableRows :
               \A r1, r2 \in S : r1.timestamp = r2.timestamp => r1 = r2}

Orderings(S) ==
    {t \in [1..Cardinality(S) -> S] : \A i, j \in 1..Cardinality(S) : t[i] = t[j] => i = j}

Tables == UNION {Orderings(S) : S \in RowSets}

\* the daily script's table has daytime rows only and no isNight column
DaytimeTables ==
    {[i \in 1..Len(t) |-> [f \in (DOMAIN t[i]) \ {"isNight"} |-> t[i][f]]] :
        t \in {u \in Tables : \A i \in 1..Len(u) : ~u[i].isNight}}

AggregatorCalls ==
    [fn : {"create_daily_aggregates_with_sunset"}, df : Tables]
    \cup [fn : {"create_daily_aggregates"}, df : DaytimeTables]

CreateDailyAggregatesWithSunsetOf ==
    /\ pc = "call"
    /\ arg.fn = "create_daily_aggregates_with_sunset"
    /\ Return(create_daily_aggregates_with_sunset(arg.df))

CreateDailyAggregatesOf ==
    /\ pc = "call"
    /\ arg.fn = "create_daily_aggregates"
    /\ Return(create_daily_aggregates(arg.df))

NextAggregator == CreateDailyAggregatesWithSunsetOf \/ CreateDailyAggregatesOf

SpecAggregator == Called(AggregatorCalls) /\ [][NextAggregator]_vars

\* the two daily scripts run on the same classification files and the same
\* temperature file, from ingestion to the daily table: main() of
\* data_prep_dynamic_windows and main() of data_prep_daily_lag up to the
\* aggregation, each ending at the first step that raises
DailyTableDynamic(dir, file) ==
    LET butterfly == process_deployments(dir)
        joined == add_temperature_data(butterfly.value, file, dir)
    IN  IF butterfly.status # "ok" THEN butterfly
        ELSE IF joined.status # "ok" THEN joined
        ELSE create_daily_aggregates_with_sunset(joined.value.merged_df)

DailyTableDaily(dir, file) ==
    LET butterfly == process_deployments_daily(dir)
        joined == add_temperature_data_daily(butterfly.value, file, dir)
    IN  IF butterfly.status # "ok" THEN butterfly
        ELSE IF joined.status # "ok" THEN joined
        ELSE create_daily_aggregates(joined.value)

VariantDirs ==
    JsonDirsOf({"none", "night_only", "peak", "dense", "dusk", "garbled",
                "garbled_night"})

VariantCalls ==
    [fn : {"daily_tables"}, json_dir : VariantDirs, temp_file : {"per_image", "half_hourly"}]

DailyTables ==
    /\ pc = "call"
    /\ arg.fn = "daily_tables"
    /\ Return([dynamic |-> DailyTableDynamic(arg.json_dir, arg.temp_file),
               daily |-> DailyTableDaily(arg.json_dir, arg.temp_file)])

NextVariants == DailyTables

SpecVariants == Called(VariantCalls) /\ [][NextVariants]_vars

\* the temperature join of each script, called on the observations its own
\* ingestion returns for a directory (none when the ingestion fails) and on
\* a temperature file that may repeat filenames
JoinFiles == TempFiles \cup {"repeated"}

JoinDirs == JsonDirsOf({"none", "night_only", "zeros", "peak"})

JoinCalls ==
    [fn : {"add_temperature_data", "add_temperature_data_daily",
           "add_temperature_data_lag"},
     json_dir : JoinDirs, temp_file : JoinFiles]

\* the observations handed to the join
IngestedBy(r) == IF r.status = "ok" THEN r.value ELSE <<>>

AddTemperatureDataDynamic ==
    /\ pc = "call"
    /\ arg.fn = "add_temperature_data"
    /\ LET butterfly == IngestedBy(process_deployments(arg.json_dir))
           r == add_temperature_data(butterfly, arg.temp_file, arg.json_dir)
       IN  Return([butterfly_df |-> butterfly, status |-> r.status,
                   merged_df |-> IF r.status = "ok" THEN r.value.merged_df ELSE <<>>])

AddTemperatureDataDaily ==
    /\ pc = "call"
    /\ arg.fn = "add_temperature_data_daily"
    /\ LET butterfly == IngestedBy(process_deployments_daily(arg.json_dir))
           r == add_temperature_data_daily(butterfly, arg.temp_file, arg.json_dir)
       IN  Return([butterfly_df |-> butterfly, status |-> r.status, merged_df |-> r.value])

AddTemperatureDataLag ==
    /\ pc = "call"
    /\ arg.fn = "add_temperature_data_lag"
    /\ LET butterfly == IngestedBy(process_deployments_lag(arg.json_dir))
           r == add_temperature_data_lag(butterfly, arg.temp_file, arg.json_dir)
       IN  Return([butterfly_df |-> butterfly, status |-> r.status, merged_df |-> r.value])

NextJoin == AddTemperatureDataDynamic \/ AddTemperatureDataDaily \/ AddTemperatureDataLag

SpecJoin == Called(JoinCalls) /\ [][NextJoin]_vars

\* observation tables of the 30-minute script: SC1 has, at each of seven
\* times around 14:30 and around midnight, no observation or one with a
\* total of 0 or 5, and SC3 may have one observation at 14:30
LagTimes ==
    {At(0, 14, 0, 0), At(0, 14, 25, 0), At(0, 14, 30, 0), At(0, 14, 35, 0),
     At(0, 15, 0, 0), At(0, 23, 45, 0), At(1, 0, 15, 0)}

LagRow(deployment_id, ts, total) ==
    [deployment_id |-> deployment_id,
     image_filename |-> [prefix |-> deployment_id, stamp |-> ts],
     timestamp |-> ts, total_butterflies |-> total, butterflies_direct_sun |-> 0,
     temperature |-> TempAt(ts)]

LagTables ==
    {SortByKey(S, ObsKey(S)) :
        S \in {{LagRow("SC1", ts, f[ts]) : ts \in present} \cup other :
                  present \in SUBSET LagTimes, f \in [LagTimes -> {0, 5}],
                  other \in {{}, {LagRow("SC3", At(0, 14, 30, 0), 5)}}}}

\* --lag-minutes and --tolerance-minutes: the defaults, an exact lag, a
\* tolerance equal to the lag, and no lag at all
LagArguments == {<<30, 5>>, <<30, 0>>, <<5, 5>>, <<0, 5>>}

LagCalls ==
    [fn : {"create_lag_analysis"}, df : LagTables, lag : {a[1] : a \in LagArguments},
     remove_zero_pairs : BOOLEAN, tolerance : {a[2] : a \in LagArguments}]

CreateLagAnalysisOf ==
    /\ pc = "call"
    /\ arg.fn = "create_lag_analysis"
    /\ Return(create_lag_analysis(arg.df, arg.lag, arg.remove_zero_pairs, arg.tolerance))

NextLagAnalysis == CreateLagAnalysisOf

SpecLagAnalysis ==
    Called({c \in LagCalls : <<c.lag, c.tolerance>> \in LagArguments})
        /\ [][NextLagAnalysis]_vars

\* filenames: a prefix, 14 digits made of six fields, a suffix
Years == {<<"2", "0", "2", "3">>, <<"2", "0", "2", "4">>, <<"0", "0", "0", "0">>}
Months == {<<"0", "0">>, <<"0", "2">>, <<"1", "1">>, <<"1", "3">>}
DaysOfMonth == {<<"0", "0">>, <<"1", "7">>, <<"2", "9">>, <<"3", "0">>,
                <<"3", "1">>, <<"3", "2">>}
Hours == {<<"0", "0">>, <<"1", "4">>, <<"2", "3">>, <<"2", "4">>}
Minutes == {<<"0", "0">>, <<"5", "9">>, <<"6", "0">>}
NamePrefixes == {<<"S", "C", "1", "_">>, <<"S", "C", "1", "-">>, <<>>,
                 <<"S", "C", "1", "_", "7">>}
NameSuffixes == {<<".", "J", "P", "G">>, <<>>}

FileNames ==
    {p \o y \o m \o d \o h \o mi \o sec \o x :
        p \in NamePrefixes, y \in Years, m \in Months, d \in DaysOfMonth,
        h \in Hours, mi \in Minutes, sec \in Minutes, x \in NameSuffixes}

TimestampCalls == [fn : {"_extract_timestamp_from_filename"}, filename : FileNames]

ExtractTimestamp ==
    /\ pc = "call"
    /\ arg.fn = "_extract_timestamp_from_filename"
    /\ Return(_extract_timestamp_from_filename(arg.filename))

NextTimestamp == ExtractTimestamp

SpecTimestamp == Called(TimestampCalls) /\ [][NextTimestamp]_vars

\* temperature series around a window: at each of six times SC1 has no
\* reading, a missing value, or a reading of 10 or 16 degrees, and SC3 may
\* have a reading at the end of the window
SeriesTimes ==
    {At(0, 13, 30, 0), At(0, 14, 0, 0), At(0, 14, 30, 0), At(0, 16, 0, 0),
     At(0, 16, 30, 0), At(1, 14, 0, 0)}

Reading(deployment_id, ts, temperature) ==
    [deployment_id |-> deployment_id, timestamp |-> ts, temperature |-> temperature]

TempSeries ==
    {{Reading("SC1", ts, f[ts]) : ts \in present} \cup other :
        present \in SUBSET SeriesTimes, f \in [SeriesTimes -> {NaN, 10, 16}],
        other \in {{}, {Reading("SC3", At(0, 16, 0, 0), 16)}}}

\* windows from 14:00 of day 0: empty, two hours, 24 hours
TemperatureCalls ==
    [fn : {"calculate_dynamic_temperature_metrics"}, temp_df : TempSeries,
     deployment_id : {"SC1"}, start_time : {At(0, 14, 0, 0)},
     end_time : {At(0, 14, 0, 0), At(0, 16, 0, 0), At(1, 14, 0, 0)}]

CalculateDynamicTemperatureMetrics ==
    /\ pc = "call"
    /\ arg.fn = "calculate_dynamic_temperature_metrics"
    /\ Return(calculate_dynamic_temperature_metrics(
                  arg.temp_df, arg.deployment_id, arg.start_time, arg.end_time))

NextTemperature == CalculateDynamicTemperatureMetrics

SpecTemperature == Called(TemperatureCalls) /\ [][NextTemperature]_vars

\* the wind queries a run makes one after the other, each through the query
\* function fn of one of the scripts on the databases of dir: at most
\* MaxQueries windows, half an hour long or past the last reading
MaxQueries == 2

WindWindows ==
    {<<At(0, 14, 0, 0), At(0, 14, 30, 0)>>, <<At(1, 9, 0, 0), At(1, 9, 30, 0)>>,
     <<At(MaxDays + 1, 14, 0, 0), At(MaxDays + 1, 14, 30, 0)>>}

WindQueries ==
    {"calculate_dynamic_wind_metrics", "_query_daily_wind_metrics", "_query_wind_metrics"}

WindCalls ==
    [fn : WindQueries, dir : WindDirs \ {"empty_dir"},
     windows : UNION {[1..n -> WindWindows] : n \in 1..MaxQueries}]

\* the query the run is in, or is about to make
Current == Len(ret) + 1

\* sqlite3.connect(str(db_path)) and the entry of the with block
Connect ==
    /\ pc = "call"
    /\ arg.fn \in WindQueries
    /\ Current <= Len(arg.windows)
    /\ connections' = connections \cup {Current}
    /\ pc' = "connected"
    /\ UNCHANGED <<arg, ret, script, args, json_dir, deployments_file, temp_file,
                   wind_db_dir, butterfly_df, temp_24hr_df, daily_df, valid_days,
                   lag_df, lag_df_sunset, written, error, exit_code>>

\* what the query function returns or raises for a window
WindResult(fn, dir, w) ==
    CASE fn = "calculate_dynamic_wind_metrics" -> Ok(calculate_dynamic_wind_metrics(dir, w[1], w[2]))
      [] fn = "_query_daily_wind_metrics" -> Ok(_query_daily_wind_metrics(dir, w[1], w[2]))
      [] fn = "_query_wind_metrics" -> _query_wind_metrics(dir, w[1], w[2])

\* the rest of the query function: the query, the return (or the raise)
\* out of the with block, whose exit commits or rolls back and does not
\* close the connection; the function's reference to the connection is
\* gone, and the interpreter closes the connection now (closed) or leaves
\* that to a later collection.  A RuntimeError of data_prep_lag's query
\* ends the run.
QueryReturns ==
    /\ pc = "connected"
    /\ LET r == WindResult(arg.fn, arg.dir, arg.windows[Current])
       IN  /\ ret' = Append(ret, r)
           /\ pc' = IF r.status # "ok" \/ Current = Len(arg.windows) THEN "return" ELSE "call"
    /\ \E closed \in BOOLEAN :
          connections' = IF closed THEN connections \ {Current} ELSE connections
    /\ UNCHANGED <<arg, script, args, json_dir, deployments_file, temp_file,
                   wind_db_dir, butterfly_df, temp_24hr_df, daily_df, valid_days,
                   lag_df, lag_df_sunset, written, error, exit_code>>

\* the interpreter finalizes a connection that nothing refers to any more
Finalize ==
    /\ arg.fn \in WindQueries
    /\ \E c \in connections :
          /\ ~(pc = "connected" /\ c = Current)
          /\ connections' = connections \ {c}
    /\ UNCHANGED <<pc, arg, ret, script, args, json_dir, deployments_file, temp_file,
                   wind_db_dir, butterfly_df, temp_24hr_df, daily_df, valid_days,
                   lag_df, lag_df_sunset, written, error, exit_code>>

NextWind == Connect \/ QueryReturns \/ Finalize

SpecWind == Called(WindCalls) /\ [][NextWind]_vars

\* the two source files of combine_deployments.py: at most MaxFileRows rows
\* each; a row has an id (also the empty one, or none) and in every other
\* column a cell that names its row and its column, or no cell (short row)
MaxFileRows == 2

DeploymentIds == {<<>>, <<"S", "C", "1">>, <<"S", "C", "1", "0">>, <<"S", "C", "2">>}

Cell(tag, col) == <<tag, col>>

QgisRow(id, tag) ==
    [col \in SeqToSet(qgis_columns) \cup {"Status"} |->
        IF col = "deployment_id" THEN id
        ELSE IF tag = "short" THEN NoValue ELSE Cell(tag, col)]

LabelRow(id, tag) ==
    [col \in SeqToSet(label_columns) \cup {"Deployment ID"} |->
        IF col = "Deployment ID" THEN id ELSE Cell(tag, col)]

\* SC1 can have a second, different row in either file
QgisFiles ==
    UNION {[1..n -> {QgisRow(id, "q") : id \in DeploymentIds \cup {NoValue}}
                        \cup {QgisRow(<<"S", "C", "1">>, "short")}] : n \in 0..MaxFileRows}

LabelFiles ==
    UNION {[1..n -> {LabelRow(id, "l") : id \in DeploymentIds}
                        \cup {LabelRow(<<"S", "C", "1">>, "m")}] : n \in 0..MaxFileRows}

CombineCalls == [fn : {"combine_deployment_data"}, qgis : QgisFiles, label : LabelFiles]

CombineDeploymentData ==
    /\ pc = "call"
    /\ arg.fn = "combine_deployment_data"
    /\ Return(combine_deployment_data(arg.qgis, arg.label))

NextCombine == CombineDeploymentData

SpecCombine == Called(CombineCalls) /\ [][NextCombine]_vars


----------------------------------------------------------------------------
(* Properties *)

\* the night periods of the table as pairs of times
NightPeriodTimes ==
    [d \in DOMAIN NIGHT_PERIODS |->
        {<<Seconds(strptime(p[1])), Seconds(strptime(p[2]))>> : p \in NIGHT_PERIODS[d]}]

PeriodsOf(d) == IF d \in DOMAIN NightPeriodTimes THEN NightPeriodTimes[d] ELSE {}

InNightRange(d, img) ==
    \E p \in PeriodsOf(d) :
        p[1] <= img.image_filename.stamp /\ img.image_filename.stamp <= p[2]

DailyScripts == {"dynamic", "daily"}

\* the lag-pair builder of a daily script has returned or raised
BuilderRan ==
    /\ script \in DailyScripts
    /\ \/ pc = "saved_24hr"
       \/ pc = "exit" /\ error \in {"none", "create_dynamic_lag_pairs", "create_lag_pairs"}

\* the sunset pass has returned
SunsetPassDone == script = "dynamic" /\ pc = "exit" /\ error = "none"

\* the lag pairs emitted so far by a daily script
EmittedPairs ==
    IF script \in DailyScripts THEN SeqToSet(lag_df) \cup SeqToSet(lag_df_sunset) ELSE {}

ValidDay(deployment_id, date) ==
    {r \in SeqToSet(valid_days) : r.deployment_id = deployment_id /\ r.date = date}

\* C1: every emitted lag pair joins two valid days of the same deployment
\* that are exactly one calendar day apart; a gap is never bridged.
C1_PairsAreConsecutiveDays ==
    \A r \in EmittedPairs :
        /\ r.date_t = r.date_t_1 + 1
        /\ ValidDay(r.deployment_id, r.date_t) # {}
        /\ ValidDay(r.deployment_id, r.date_t_1) # {}

C1_Witness ==
    /\ script = "dynamic"
    /\ pc = "exit"
    /\ error = "none"
    /\ \E r \in SeqToSet(lag_df_sunset) : r.date_t = 1 /\ r.date_t_1 = 0
    /\ \E r \in SeqToSet(lag_df) : r.date_t = 1 /\ r.date_t_1 = 0

\* the pairs of adjacent valid days of one deployment that are consecutive
\* calendar days
ConsecutiveValidPairs ==
    {<<a, b>> \in SeqToSet(valid_days) \X SeqToSet(valid_days) :
        a.deployment_id = b.deployment_id /\ b.date = a.date + 1}

HasPair(rows, a, b) ==
    \E r \in rows : /\ r.deployment_id = a.deployment_id
                    /\ r.date_t_1 = a.date
                    /\ r.date_t = b.date

\* C2: no emitted pair has both max counts zero, and every consecutive-day
\* pair with a non-zero max count on either day is emitted.
C2_ZeroPairsSuppressedOnly ==
    /\ \A r \in EmittedPairs : ~(r.max_butterflies_t = 0 /\ r.max_butterflies_t_1 = 0)
    /\ BuilderRan =>
          \A p \in ConsecutiveValidPairs :
              (p[1].max_butterflies # 0 \/ p[2].max_butterflies # 0)
                  => HasPair(SeqToSet(lag_df), p[1], p[2])
    /\ SunsetPassDone =>
          \A p \in ConsecutiveValidPairs :
              (p[1].max_butterflies # 0 \/ p[2].max_butterflies # 0)
                  => HasPair(SeqToSet(lag_df_sunset), p[1], p[2])

\* an emitted pair whose previous day has no butterflies
C2_Witness ==
    /\ BuilderRan
    /\ \E p \in ConsecutiveValidPairs :
          p[1].max_butterflies = 0 /\ p[2].max_butterflies # 0
    /\ \E r \in SeqToSet(lag_df) : r.max_butterflies_t_1 = 0 /\ r.max_butterflies_t # 0

\* C3: window_start is the previous day's time_of_max; window_end is
\* window_start + 24 hours in the 24hr pass and the current day's
\* last_observation_time in the sunset pass.
C3_WindowDefinition ==
    script = "dynamic" =>
        /\ \A r \in SeqToSet(lag_df) :
              /\ \A p \in ValidDay(r.deployment_id, r.date_t_1) :
                    r.window_start = p.time_of_max
              /\ r.window_end = r.window_start + 24 * 3600
        /\ \A r \in SeqToSet(lag_df_sunset) :
              /\ \A p \in ValidDay(r.deployment_id, r.date_t_1) :
                    r.window_start = p.time_of_max
              /\ \A c \in ValidDay(r.deployment_id, r.date_t) :
                    r.window_end = c.last_observation_time

\* both passes done, on a pair whose sunset window is not 24 hours long
C3_Witness ==
    /\ SunsetPassDone
    /\ \E r \in SeqToSet(lag_df_sunset) : r.window_end # r.window_start + 24 * 3600
    /\ lag_df # <<>>

\* the deployment has no wind database in the directory read by the run
NoWindDatabase(deployment_id) ==
    LET meters == wind_meter_map(DeploymentRows(deployments_file))
    IN  \/ deployment_id \notin DOMAIN meters
        \/ meters[deployment_id] \notin db_files(wind_db_dir)

\* C4: metrics_complete lies in [0, 1] and is exactly 0 whenever one of the
\* three coverages is 0, in particular for a deployment without a wind
\* database.  (metrics_complete is in hundredths.)
C4_MetricsComplete ==
    script = "dynamic" =>
        \A r \in EmittedPairs :
            /\ 0 <= r.metrics_complete /\ r.metrics_complete <= 100
            /\ (\/ r.temp_data_coverage[1] = 0
                \/ r.wind_data_coverage[1] = 0
                \/ r.butterfly_data_coverage[1] = 0) => r.metrics_complete = 0
            /\ NoWindDatabase(r.deployment_id) => r.metrics_complete = 0

\* a pair without wind database and with temperature and sun coverage
C4_Witness ==
    /\ script = "dynamic"
    /\ \E r \in EmittedPairs :
          /\ NoWindDatabase(r.deployment_id)
          /\ r.temp_data_coverage[1] > 0
          /\ r.butterfly_data_coverage[1] > 0
          /\ r.metrics_complete = 0


\* number of days of the deployment of row r up to its date
DayRank(df, r) ==
    Cardinality({x \in SeqToSet(df) : x.deployment_id = r.deployment_id /\ x.date <= r.date})

\* C5: the daily aggregation returns a day_sequence column that counts
\* 1, 2, ..., n over each deployment's days in ascending date order.
C5_DaySequence ==
    (script \in DailyScripts /\ daily_df # <<>>) =>
        \A i \in 1..Len(daily_df) :
            /\ "day_sequence" \in DOMAIN daily_df[i]
            /\ daily_df[i].day_sequence = DayRank(daily_df, daily_df[i])

\* the valid-day table of the scenario: one deployment, two consecutive
\* days with max counts 0 and 50, the first day's peak at 14:00
C6_Scenario ==
    /\ script = "dynamic"
    /\ Len(valid_days) = 2
    /\ valid_days[1].deployment_id = valid_days[2].deployment_id
    /\ valid_days[2].date = valid_days[1].date + 1
    /\ valid_days[1].max_butterflies = 0
    /\ valid_days[2].max_butterflies = 50
    /\ valid_days[1].time_of_max = At(valid_days[1].date, 14, 0, 0)

\* C6: on that table the 24hr pass produces exactly one lag pair, with
\* window_start = day 1 14:00, window_end = day 2 14:00, butterfly_diff = 50.
C6_EndToEndScenario ==
    (C6_Scenario /\ BuilderRan) =>
        /\ error # "create_dynamic_lag_pairs"
        /\ Len(lag_df) = 1
        /\ lag_df[1].window_start = At(valid_days[1].date, 14, 0, 0)
        /\ lag_df[1].window_end = At(valid_days[2].date, 14, 0, 0)
        /\ lag_df[1].butterfly_diff = 50

C6_Witness == C6_Scenario /\ pc = "saved_24hr" /\ Len(lag_df) = 1

\* the deployment-days of the classification files whose images are all
\* night images, by flag or by the night table
NightOnlyDays ==
    {k \in DayKeys :
        LET imgs == {img \in Classifications(json_dir, k[1]) :
                        DateOf(img.image_filename.stamp) = k[2]}
        IN  /\ imgs # {}
            /\ \A img \in imgs :
                  img.isNight \/ InNightRange(k[1], img)}

\* C7: a deployment-day with night observations only is never a row of the
\* daily aggregates, and every row has photo_count >= 1.
C7_NoNightOnlyDay ==
    script \in DailyScripts =>
        \A i \in 1..Len(daily_df) :
            /\ daily_df[i].photo_count >= 1
            /\ <<daily_df[i].deployment_id, daily_df[i].date>> \notin NightOnlyDays

\* aggregates were built from observations that include a night-only day
C7_Witness ==
    /\ script = "dynamic"
    /\ daily_df # <<>>
    /\ \E k \in NightOnlyDays :
          \E i \in 1..Len(butterfly_df) :
              butterfly_df[i].deployment_id = k[1] /\ butterfly_df[i].date = k[2]

\* filter_valid_days has returned
FilterRan == script \in DailyScripts /\ (pc = "filtered" \/ BuilderRan)

DailyRow(deployment_id, date) ==
    {r \in SeqToSet(daily_df) : r.deployment_id = deployment_id /\ r.date = date}

\* C8: both days of every emitted pair have min_photos <= photo_count <=
\* max_photos; a day outside the range is left out without failing the run,
\* and a day with photo_count equal to min_photos or max_photos is kept.
C8_PhotoCountFilter ==
    /\ \A r \in EmittedPairs :
          \A x \in DailyRow(r.deployment_id, r.date_t)
                      \cup DailyRow(r.deployment_id, r.date_t_1) :
              args[1] <= x.photo_count /\ x.photo_count <= args[2]
    /\ FilterRan =>
          /\ \A x \in SeqToSet(valid_days) :
                args[1] <= x.photo_count /\ x.photo_count <= args[2]
          /\ \A x \in SeqToSet(daily_df) :
                x.photo_count \in {args[1], args[2]} => x \in SeqToSet(valid_days)
          /\ \A x \in SeqToSet(daily_df) :
                (x.photo_count < args[1] \/ x.photo_count > args[2])
                    => x \notin SeqToSet(valid_days)
    /\ (script \in DailyScripts /\ pc = "filtered") => error = "none" /\ exit_code = -1

\* the filter kept a day at a bound and left a day out, and the run goes on
C8_Witness ==
    /\ script \in DailyScripts
    /\ pc = "filtered"
    /\ \E x \in SeqToSet(valid_days) : x.photo_count = args[2]
    /\ \E x \in SeqToSet(daily_df) : x.photo_count > args[2]

LagOutputs == {"output_24hr", "output_sunset", "output_file"}

\* the run has ended after reaching its lag-pair builder
EndedAfterBuilder ==
    /\ pc = "exit"
    /\ \/ script \in DailyScripts
          /\ error \in {"none", "create_dynamic_lag_pairs", "create_lag_pairs"}
       \/ script = "lag"
          /\ error \in {"none", "create_lag_analysis", "add_wind_data", "no_wind_rows"}

\* C9: when no lag pair is produced, the builder raises, the script exits
\* non-zero and no lag-pair CSV is written.
C9_NoPairsFailsRun ==
    (EndedAfterBuilder /\ lag_df = <<>>) =>
        /\ error \in {"create_dynamic_lag_pairs", "create_lag_pairs", "create_lag_analysis"}
        /\ exit_code # 0
        /\ written \cap LagOutputs = {}

\* the files a script has written when it completed
Outputs ==
    CASE script = "dynamic" -> {"output_24hr", "output_sunset"}
      [] script = "daily" -> {"daily_file", "output_file"}
      [] script = "lag" -> {"output_file"}

\* C10: a script exits with code 0 only when it completed and wrote its
\* output, and with a non-zero code on every unrecoverable failure.
C10_ExitCode ==
    pc = "exit" =>
        /\ exit_code = 0 => (error = "none" /\ Outputs \subseteq written)
        /\ error # "none" => exit_code # 0


\* the wind step of data_prep_lag has returned or raised on a non-empty frame
WindStepRan ==
    /\ script = "lag"
    /\ lag_df # <<>>
    /\ \/ pc = "wind_added"
       \/ pc = "exit" /\ error \in {"none", "add_wind_data"}

\* C11: a deployment without wind database (no wind_meter_name, or no
\* matching .s3db file) still gets its lag pairs, each with the all-missing
\* wind metrics and wind_data_coverage 0, and the run does not fail for it.
C11_MissingWindDatabase ==
    /\ (script = "dynamic" /\ BuilderRan) =>
          /\ \A p \in ConsecutiveValidPairs :
                (/\ NoWindDatabase(p[1].deployment_id)
                 /\ (p[1].max_butterflies # 0 \/ p[2].max_butterflies # 0))
                    => HasPair(SeqToSet(lag_df), p[1], p[2])
          /\ \A r \in EmittedPairs :
                NoWindDatabase(r.deployment_id) =>
                    /\ r.wind_max_gust = NaN
                    /\ r.wind_obs_count = 0
                    /\ r.wind_data_coverage = <<0, 1>>
    /\ (WindStepRan /\ ~QueryFails(wind_db_dir)) =>
          /\ error # "add_wind_data"
          /\ \A i \in 1..Len(lag_df) :
                NoWindDatabase(lag_df[i].deployment_id) =>
                    /\ lag_df[i].max_gust = NaN
                    /\ lag_df[i].wind_obs_count = 0


\* C12: in every script a wind query that hits an error gives the
\* all-missing wind result with observation count (and coverage) 0, and the
\* run goes on; the error does not leave the query.
C12_QueryErrorDegrades ==
    QueryFails(wind_db_dir) =>
        /\ script = "dynamic" =>
              \A r \in EmittedPairs :
                  /\ r.wind_max_gust = NaN
                  /\ r.wind_obs_count = 0
                  /\ r.wind_data_coverage = <<0, 1>>
        /\ script = "daily" =>
              /\ error # "add_daily_wind_metrics"
              /\ \A i \in 1..Len(daily_df) :
                    daily_df[i].wind_max_gust = NaN /\ daily_df[i].wind_obs_count = 0
        /\ WindStepRan =>
              /\ error # "add_wind_data"
              /\ \A i \in 1..Len(lag_df) :
                    lag_df[i].max_gust = NaN /\ lag_df[i].wind_obs_count = 0


\* no two rows of the table are for the same deployment and day pair
OneRowPerDayPair(rows) ==
    \A i, j \in 1..Len(rows) :
        (/\ rows[i].deployment_id = rows[j].deployment_id
         /\ rows[i].date_t_1 = rows[j].date_t_1
         /\ rows[i].date_t = rows[j].date_t) => i = j

\* C13: the lag-pair output has exactly one row per emitted day pair, also
\* after the left join of the deployment metadata, whatever its rows.
C13_OneRowPerDayPair ==
    script \in DailyScripts =>
        /\ OneRowPerDayPair(lag_df)
        /\ OneRowPerDayPair(lag_df_sunset)
        /\ BuilderRan =>
              \A p \in ConsecutiveValidPairs :
                  HasPair(SeqToSet(lag_df), p[1], p[2])
                      <=> (p[1].max_butterflies # 0 \/ p[2].max_butterflies # 0)


\* the call of the Count Parser on a label has returned
ParserReturned == pc = "return" /\ arg.fn = "_map_count_to_number"

\* the stripped label is N-M: digits, one hyphen, digits
IsRangeLabel(l) ==
    \E h \in 1..Len(l) :
        /\ l[h] = "-"
        /\ IsDigits(SubSeq(l, 1, h - 1))
        /\ IsDigits(SubSeq(l, h + 1, Len(l)))

\* the digits before the first character that is not a digit
LeadingDigits(l) ==
    SubSeq(l, 1, Min({i \in 1..Len(l) : l[i] \notin Digits}) - 1)

\* the stripped label is N+: digits and a plus sign
IsPlusLabel(l) ==
    Len(l) >= 2 /\ l[Len(l)] = "+" /\ IsDigits(SubSeq(l, 1, Len(l) - 1))

\* C14: for a label N-M the Count Parser returns N and for a label N+ it
\* returns N, the labels of the fixed table and labels with surrounding
\* whitespace included.
C14_RangeAndPlusLabels ==
    ParserReturned =>
        LET l == Strip(arg.count_text)
        IN  (IsRangeLabel(l) \/ IsPlusLabel(l)) =>
                ret.ok /\ ret.value = ToInt(LeadingDigits(l))

\* the parser returned for '10-99' with whitespace around it
C14_Witness ==
    /\ ParserReturned
    /\ arg.count_text = <<" ", "1", "0", "-", "9", "9", " ", " ">>
    /\ ret.value = 10

\* C15: the Count Parser returns a non-negative number or fails; so every
\* total and direct-sun count of an observation is >= 0 and the direct-sun
\* count is at most the total.
C15_NonNegativeCounts ==
    /\ ParserReturned => (ret.ok => ret.value >= 0)
    /\ (pc = "return" /\ arg.fn = "_process_cells") =>
          (ret.ok => (ret.total >= 0 /\ ret.sun >= 0 /\ ret.sun <= ret.total))


\* the call of the timestamp extraction has returned
ExtractReturned == pc = "return" /\ arg.fn = "_extract_timestamp_from_filename"

\* the maximal runs of digits of a filename, as <<first, last>>
DigitRuns(f) ==
    {r \in (1..Len(f)) \X (1..Len(f)) :
        /\ r[1] <= r[2]
        /\ \A i \in r[1]..r[2] : f[i] \in Digits
        /\ r[1] = 1 \/ f[r[1] - 1] \notin Digits
        /\ r[2] = Len(f) \/ f[r[2] + 1] \notin Digits}

RunsOf14(f) == {r \in DigitRuns(f) : r[2] - r[1] + 1 = 14}

\* the run of 14 digits of a filename that has exactly one
TheRun(f) == LET r == CHOOSE r \in RunsOf14(f) : TRUE IN SubSeq(f, r[1], r[2])

SpellsDateTime(run) ==
    LET N(i, j) == ToInt(SubSeq(run, i, j))
    IN  /\ N(1, 4) >= 1000
        /\ N(5, 6) >= 1 /\ N(5, 6) <= 12
        /\ N(7, 8) >= 1 /\ N(7, 8) <= DaysInMonth(N(1, 4), N(5, 6))
        /\ N(9, 10) <= 23 /\ N(11, 12) <= 59 /\ N(13, 14) <= 59

\* the filename has one run of 14 digits, no longer run, an underscore
\* right before the run, and the run spells a date and time
WellFormedName(f) ==
    /\ Cardinality(RunsOf14(f)) = 1
    /\ \A r \in DigitRuns(f) : r[2] - r[1] + 1 <= 14
    /\ \A r \in RunsOf14(f) : r[1] > 1 /\ f[r[1] - 1] = "_"
    /\ SpellsDateTime(TheRun(f))

IngestionRan == pc \notin {"start", "loaded"} /\ error # "read_csv"

\* the images of the classification files, with their deployment
Images == {x \in Deployments \X UNION {Classifications(json_dir, d) : d \in Deployments} :
              x[1] \in JsonFiles(json_dir) /\ x[2] \in Classifications(json_dir, x[1])}

\* what the name of an image says: a time, or nothing that is a time
Dated(img) == img.image_filename.stamp >= 0

OffCadence(d, img) ==
    /\ d \in DOMAIN DOWNSAMPLE_RULES
    /\ MinuteOf(img.image_filename.stamp) % DOWNSAMPLE_RULES[d].target_interval # 0

NightImage(d, img) == img.isNight \/ InNightRange(d, img)

\* the images whose cells ingestion parses
Parsed_Images ==
    {x \in Images :
        /\ Dated(x[2])
        /\ IF script = "dynamic"
           THEN NightImage(x[1], x[2]) \/ ~OffCadence(x[1], x[2])
           ELSE ~NightImage(x[1], x[2]) /\ ~OffCadence(x[1], x[2])}

Malformed(img) == \E i \in 1..Len(img.cells) : ~_map_count_to_number(img.cells[i].count).ok

Aborted == pc = "exit" /\ error = "process_deployments" /\ exit_code = 1 /\ written = {}

\* the observations are those of the images in S
ObservationsOf(S) ==
    {<<butterfly_df[i].deployment_id, butterfly_df[i].image_filename>> :
        i \in 1..Len(butterfly_df)} = {<<x[1], x[2].image_filename>> : x \in S}

\* C17 as stated: an image without a timestamp gives no observation and no
\* error and leaves the other images alone; a malformed count label in any
\* cell of any image aborts the run.
C17_AnyMalformedLabelAborts ==
    IngestionRan =>
        /\ (\E x \in Images : Malformed(x[2])) => Aborted
        /\ ~(\E x \in Images : Malformed(x[2])) =>
              /\ error = "process_deployments" => JsonFiles(json_dir) = {}
              /\ ObservationsOf(Parsed_Images)

\* C17 amended: an image without a timestamp gives no observation and no
\* error and leaves the other images alone, also when its cells are
\* malformed; a malformed count label in a cell of an image that has a
\* timestamp and is not dropped as night or off cadence aborts the run.
C17_SkipAndAbort ==
    IngestionRan =>
        /\ (\E x \in Parsed_Images : Malformed(x[2])) => Aborted
        /\ ~(\E x \in Parsed_Images : Malformed(x[2])) =>
              /\ error = "process_deployments" => JsonFiles(json_dir) = {}
              /\ ObservationsOf(Parsed_Images)

\* a run went on to its end over a file with an image without a timestamp
\* and an image with a malformed timestamp and a malformed label
C17_Witness ==
    /\ pc = "exit" /\ error = "none"
    /\ \E x \in Images : x[2].image_filename.stamp = NoStamp
    /\ \E x \in Images : x[2].image_filename.stamp = BadStamp /\ Malformed(x[2])
    /\ Len(butterfly_df) >= 1

\* a run was aborted by a malformed label
C17_AbortReached == Aborted /\ \E x \in Parsed_Images : Malformed(x[2])


\* the rows of the observation table that come from image x
RowsOf(x) ==
    {i \in 1..Len(butterfly_df) :
        /\ butterfly_df[i].deployment_id = x[1]
        /\ butterfly_df[i].image_filename = x[2].image_filename}

Ingested == IngestionRan /\ error # "process_deployments"

\* C18: an image with a timestamp is treated as night exactly when its
\* isNight flag is set or its timestamp lies in a night period of its
\* deployment, ends included. The dynamic-window script keeps the image and
\* marks its observation as night; the daily and lag scripts drop it, and
\* keep every image on cadence that is not night.
C18_NightIffFlagOrRange ==
    Ingested =>
        \A x \in Images :
            Dated(x[2]) =>
                IF script = "dynamic"
                THEN /\ \A i \in RowsOf(x) : butterfly_df[i].isNight = NightImage(x[1], x[2])
                     /\ NightImage(x[1], x[2]) => RowsOf(x) # {}
                ELSE /\ NightImage(x[1], x[2]) => RowsOf(x) = {}
                     /\ (~NightImage(x[1], x[2]) /\ ~OffCadence(x[1], x[2]))
                            => RowsOf(x) # {}

\* the dynamic-window script marked as night an unflagged image taken at
\* the last second of a night period, and as day an image of a deployment
\* without night periods taken at that time
C18_Witness ==
    /\ script = "dynamic" /\ Ingested
    /\ \E x \in Images :
          /\ ~x[2].isNight
          /\ \E p \in PeriodsOf(x[1]) : x[2].image_filename.stamp = p[2]
          /\ \E i \in RowsOf(x) : butterfly_df[i].isNight
    /\ \E x \in Images :
          /\ x[1] \notin DOMAIN NIGHT_PERIODS
          /\ \E i \in RowsOf(x) : ~butterfly_df[i].isNight
                                   /\ butterfly_df[i].timestamp % SecondsPerDay = At(0, 6, 20, 1)


\* the observation is on the cadence of its deployment
OnCadence(r) ==
    MinuteOf(r.timestamp) % DOWNSAMPLE_RULES[r.deployment_id].target_interval = 0

\* no image of a deployment without rule is missing for its minute
NoRuleNothingDropped ==
    \A x \in Images :
        (/\ x[1] \notin DOMAIN DOWNSAMPLE_RULES
         /\ Dated(x[2])
         /\ script = "dynamic" \/ ~NightImage(x[1], x[2]))
            => RowsOf(x) # {}

\* C19 as stated: every observation kept for a deployment with a
\* downsampling rule has a minute that is a multiple of the target
\* interval, and downsampling drops nothing of a deployment without rule.
C19_EveryKeptOnCadence ==
    Ingested =>
        /\ \A i \in 1..Len(butterfly_df) :
              butterfly_df[i].deployment_id \in DOMAIN DOWNSAMPLE_RULES
                  => OnCadence(butterfly_df[i])
        /\ NoRuleNothingDropped

\* C19 amended: every observation kept for a deployment with a downsampling
\* rule that is not a night observation has a minute that is a multiple of
\* the target interval (the dynamic-window script keeps night observations
\* whatever their minute, the other scripts keep none), and downsampling
\* drops nothing of a deployment without rule.
C19_DaytimeKeptOnCadence ==
    Ingested =>
        /\ \A i \in 1..Len(butterfly_df) :
              (/\ butterfly_df[i].deployment_id \in DOMAIN DOWNSAMPLE_RULES
               /\ script = "dynamic" => ~butterfly_df[i].isNight)
                  => OnCadence(butterfly_df[i])
        /\ NoRuleNothingDropped

\* a daytime image off the cadence was dropped for a deployment with a rule
\* and kept for a deployment without
C19_Witness ==
    /\ Ingested
    /\ \E x \in Images :
          /\ x[1] \in DOMAIN DOWNSAMPLE_RULES
          /\ Dated(x[2]) /\ ~NightImage(x[1], x[2]) /\ OffCadence(x[1], x[2])
          /\ RowsOf(x) = {}
    /\ \E x \in Images :
          /\ x[1] \notin DOMAIN DOWNSAMPLE_RULES
          /\ Dated(x[2]) /\ ~NightImage(x[1], x[2])
          /\ MinuteOf(x[2].image_filename.stamp) % 30 # 0
          /\ RowsOf(x) # {}
    /\ \E i \in 1..Len(butterfly_df) :
          butterfly_df[i].deployment_id \in DOMAIN DOWNSAMPLE_RULES


\* an aggregator was called on a table and returned the daily rows
AggregatorReturned ==
    /\ pc = "return"
    /\ arg.fn \in {"create_daily_aggregates_with_sunset", "create_daily_aggregates"}
    /\ ret.status = "ok"

\* the positions in the table of the daytime observations of a daily row
DaytimeOf(day) ==
    {i \in 1..Len(arg.df) :
        /\ arg.df[i].deployment_id = day.deployment_id
        /\ arg.df[i].date = day.date
        /\ arg.fn = "create_daily_aggregates_with_sunset" => ~arg.df[i].isNight}

\* those among them whose total is the day's maximum
AtMaximum(day) ==
    {i \in DaytimeOf(day) : arg.df[i].total_butterflies = day.max_butterflies}

SortedByTime(df) == \A i, j \in 1..Len(df) : i < j => df[i].timestamp <= df[j].timestamp

\* C20 as stated: time_of_max is the timestamp of a daytime observation of
\* the day whose total is max_count, the earliest such, for any order of
\* the rows of the table.
C20_EarliestForAnyOrder ==
    AggregatorReturned =>
        \A n \in 1..Len(ret.value) :
            LET day == ret.value[n]
            IN  /\ AtMaximum(day) # {}
                /\ day.time_of_max = Min({arg.df[i].timestamp : i \in AtMaximum(day)})

\* C20 amended: time_of_max is the timestamp of a daytime observation of
\* the day whose total is max_count, the first such in the row order of the
\* table, which is the earliest when the table is sorted by timestamp.
C20_FirstInTableOrder ==
    AggregatorReturned =>
        \A n \in 1..Len(ret.value) :
            LET day == ret.value[n]
            IN  /\ AtMaximum(day) # {}
                /\ day.time_of_max = arg.df[Min(AtMaximum(day))].timestamp
                /\ SortedByTime(arg.df) =>
                      day.time_of_max = Min({arg.df[i].timestamp : i \in AtMaximum(day)})

\* the aggregator returned the first of two tied observations of a day
\* that followed a night observation with the same total in a sorted table
C20_Witness ==
    /\ AggregatorReturned
    /\ arg.fn = "create_daily_aggregates_with_sunset"
    /\ SortedByTime(arg.df)
    /\ arg.df[1].isNight /\ arg.df[1].total_butterflies = 5
    /\ \E n \in 1..Len(ret.value) :
          /\ Cardinality(AtMaximum(ret.value[n])) = 2
          /\ ret.value[n].max_butterflies = 5
          /\ ret.value[n].time_of_max = At(0, 14, 0, 0)

\* the temperature window query was called and returned
TemperatureReturned == pc = "return" /\ arg.fn = "calculate_dynamic_temperature_metrics"

\* the readings of the series that a window from lo to hi counts, the
\* reading at hi among them or not
WindowReadings(end_included) ==
    {t \in arg.temp_df :
        /\ t.deployment_id = arg.deployment_id
        /\ t.temperature # NaN
        /\ arg.start_time <= t.timestamp
        /\ IF end_included THEN t.timestamp <= arg.end_time ELSE t.timestamp < arg.end_time}

\* the returned statistics and coverage are those of the readings W
StatisticsOf(W) ==
    LET duration == arg.end_time - arg.start_time
    IN  /\ ret.temp_obs_count = Cardinality(W)
        /\ ret.temp_max = IF W = {} THEN NaN ELSE Max({t.temperature : t \in W})
        /\ ret.temp_min = IF W = {} THEN NaN ELSE Min({t.temperature : t \in W})
        /\ IF W = {} \/ duration <= 0 THEN ret.temp_data_coverage[1] = 0
           ELSE IF Cardinality(W) * 1800 >= duration THEN ret.temp_data_coverage = <<1, 1>>
           ELSE ret.temp_data_coverage[1] * duration
                    = ret.temp_data_coverage[2] * Cardinality(W) * 1800

\* C21 as stated: the temperature window is half-open: a reading at
\* start_time is included and a reading at end_time is excluded from the
\* statistics and from the observed count used for coverage.
C21_HalfOpenWindow ==
    TemperatureReturned => StatisticsOf(WindowReadings(FALSE))

\* C21 amended: the temperature window is closed: a reading at start_time
\* and a reading at end_time are both included in the statistics and in the
\* observed count used for coverage.
C21_ClosedWindow ==
    TemperatureReturned => StatisticsOf(WindowReadings(TRUE))

\* the query returned over a two-hour window whose only readings are one at
\* start_time and the warmer one at end_time, and counted both
C21_Witness ==
    /\ TemperatureReturned
    /\ arg.end_time = At(0, 16, 0, 0)
    /\ arg.temp_df = {Reading("SC1", arg.start_time, 10), Reading("SC1", arg.end_time, 16)}
    /\ ret.temp_obs_count = 2
    /\ ret.temp_max = 16

\* a run of wind queries is between two queries or past the last one
BetweenQueries == arg.fn \in WindQueries /\ pc \in {"call", "return"}

\* C22: after each wind window query returns, with a result, with the empty
\* result or through its error path, the connection it opened has been
\* closed: no connection stays open between two queries, and the number of
\* open connections never exceeds 1.
C22_ConnectionClosedOnReturn ==
    /\ BetweenQueries => connections = {}
    /\ Cardinality(connections) <= 1

\* rows in the order of deployment_id and, within a deployment, of strictly
\* ascending date_t
OrderedByDeploymentAndDate(rows) ==
    \A i, j \in 1..Len(rows) :
        i < j =>
            \/ DeploymentRank(rows[i].deployment_id) < DeploymentRank(rows[j].deployment_id)
            \/ /\ rows[i].deployment_id = rows[j].deployment_id
               /\ rows[i].date_t < rows[j].date_t

\* C23: the rows of the lag-pair output are ordered by deployment_id and,
\* within a deployment, by strictly ascending date_t, whatever the
\* classification files and the tables derived from them.
C23_RowsOrdered ==
    script \in DailyScripts =>
        /\ OrderedByDeploymentAndDate(lag_df)
        /\ OrderedByDeploymentAndDate(lag_df_sunset)

\* a transformed value has the sign of the difference it is derived from,
\* and so is 0 exactly when the difference is 0
SameSign(transformed, diff) == Sign(transformed) = Sign(diff)

\* C24: in every pipeline variant each transformed response variable
\* (cube root and log) has the same sign as the raw difference it is derived
\* from and is 0 if and only if that difference is 0, the raw difference
\* being the current value minus the previous value.
C24_TransformsKeepSign ==
    /\ \A r \in EmittedPairs :
          /\ r.butterfly_diff = r.max_butterflies_t - r.max_butterflies_t_1
          /\ r.butterfly_diff_95th[1] = r.butterflies_95th_percentile_t[1]
                                            - r.butterflies_95th_percentile_t_1[1]
          /\ r.butterfly_diff_top3[1] = r.butterflies_top3_mean_t[1]
                                            - r.butterflies_top3_mean_t_1[1]
          /\ SameSign(r.butterfly_diff_cbrt, r.butterfly_diff)
          /\ SameSign(r.butterfly_diff_log, r.butterfly_diff)
          /\ SameSign(r.butterfly_diff_95th_cbrt, r.butterfly_diff_95th[1])
          /\ SameSign(r.butterfly_diff_95th_log, r.butterfly_diff_95th[1])
          /\ SameSign(r.butterfly_diff_top3_cbrt, r.butterfly_diff_top3[1])
          /\ SameSign(r.butterfly_diff_top3_log, r.butterfly_diff_top3[1])
    /\ script = "lag" =>
          \A i \in 1..Len(lag_df) :
              /\ lag_df[i].butterfly_difference
                    = lag_df[i].total_butterflies_t - lag_df[i].total_butterflies_t_lag
              /\ SameSign(lag_df[i].butterfly_difference_cbrt, lag_df[i].butterfly_difference)
              /\ SameSign(lag_df[i].butterfly_difference_log, lag_df[i].butterfly_difference)

\* C24 for the two daily scripts alone
C24_DailyScripts == script \in DailyScripts => C24_TransformsKeepSign

\* combine_deployment_data was called on two files and wrote the output
CombineReturned == pc = "return" /\ arg.fn = "combine_deployment_data"

\* the ids of a source file that are not empty, and the last row of an id
IdsIn(rows, id_column) ==
    {rows[i][id_column] : i \in 1..Len(rows)} \ {<<>>, NoValue}

LastRow(rows, id_column, id) ==
    rows[Max({i \in 1..Len(rows) : rows[i][id_column] = id})]

\* C25: combine_deployment_data writes exactly one row for every non-empty
\* deployment id of the QGIS file or of the label file, in sorted id order,
\* each row carrying that id in deployment_id; an id found in only one file
\* has empty strings in the other file's columns, and the label columns
\* Status, Notes and Youtube Link appear only as label_status, label_notes
\* and label_youtube_url.
C25_CombinedRows ==
    CombineReturned =>
        LET rows == ret.rows
            qgis_ids == IdsIn(arg.qgis, "deployment_id")
            label_ids == IdsIn(arg.label, "Deployment ID")
        IN  /\ {rows[n].deployment_id : n \in 1..Len(rows)} = qgis_ids \cup label_ids
            /\ \A m, n \in 1..Len(rows) :
                  m < n => StrLt(rows[m].deployment_id, rows[n].deployment_id)
            /\ \A n \in 1..Len(rows) :
                  LET id == rows[n].deployment_id
                  IN  /\ DOMAIN rows[n] = SeqToSet(ret.fieldnames)
                      /\ id \notin qgis_ids =>
                            \A col \in SeqToSet(qgis_columns) \ {"deployment_id"} :
                                rows[n][col] = <<>>
                      /\ id \notin label_ids =>
                            \A col \in SeqToSet(ret.fieldnames) \ SeqToSet(qgis_columns) :
                                rows[n][col] = <<>>
                      /\ id \in label_ids =>
                            LET label_row == LastRow(arg.label, "Deployment ID", id)
                            IN  /\ rows[n].label_status = label_row["Status"]
                                /\ rows[n].label_notes = label_row["Notes"]
                                /\ rows[n].label_youtube_url = label_row["Youtube Link"]
                      /\ id \in qgis_ids =>
                            LET qgis_row == LastRow(arg.qgis, "deployment_id", id)
                            IN  /\ rows[n].status = WrittenCell(qgis_row.status)
                                /\ rows[n].notes = WrittenCell(qgis_row.notes)
                                /\ rows[n].youtube_url = WrittenCell(qgis_row.youtube_url)
            /\ SeqToSet(ret.fieldnames) \cap {"Status", "Notes", "Youtube Link"} = {}
            /\ {"label_status", "label_notes", "label_youtube_url"}
                  \subseteq SeqToSet(ret.fieldnames)

\* the output has three rows, SC1 from both files, SC10 from the label file
\* alone and SC2 from the QGIS file alone, in that order
C25_Witness ==
    /\ CombineReturned
    /\ Len(ret.rows) = 3
    /\ ret.rows[1].deployment_id = <<"S", "C", "1">>
    /\ ret.rows[1].status = Cell("q", "status")
    /\ ret.rows[1].label_status = Cell("l", "Status")
    /\ ret.rows[2].deployment_id = <<"S", "C", "1", "0">>
    /\ ret.rows[2].status = <<>>
    /\ ret.rows[2].label_notes = Cell("l", "Notes")
    /\ ret.rows[3].deployment_id = <<"S", "C", "2">>
    /\ ret.rows[3].label_status = <<>>

\* the identifiers and the response variables of a lag pair
ResponseVariables ==
    {"butterfly_diff", "butterfly_diff_cbrt", "butterfly_diff_log",
     "butterfly_diff_95th", "butterfly_diff_95th_cbrt", "butterfly_diff_95th_log",
     "butterfly_diff_top3", "butterfly_diff_top3_cbrt", "butterfly_diff_top3_log"}

PairOf(r) ==
    [col \in {"deployment_id", "date_t_1", "date_t"} \cup ResponseVariables |-> r[col]]

\* the status with which the builder ends on the valid days, in a mode
BuilderStatus(wind_dir, window_type) ==
    create_dynamic_lag_pairs(valid_days, butterfly_df, temp_24hr_df,
        DeploymentRows(deployments_file), wind_dir, window_type).status

\* C26: for the same valid-day table the builder emits the same
\* (deployment_id, date_t_1, date_t) pairs with the same response variables
\* in '24hr' and in 'sunset' mode, so the sunset pass raises 'No valid lag
\* pairs created' exactly when the 24hr pass does (and never after it).
C26_SamePairsInBothModes ==
    script = "dynamic" =>
        /\ SunsetPassDone =>
              /\ Len(lag_df_sunset) = Len(lag_df)
              /\ \A i \in 1..Len(lag_df) : PairOf(lag_df_sunset[i]) = PairOf(lag_df[i])
        /\ pc = "exit" /\ error = "create_dynamic_lag_pairs" => "output_24hr" \notin written
        /\ pc = "filtered" =>
              \A w \in WindDirs : BuilderStatus(w, "sunset") = BuilderStatus(w, "24hr")

\* both passes emitted three pairs, one of them after a day without
\* butterflies and one over windows that end at different times
C26_Witness ==
    /\ SunsetPassDone
    /\ Len(lag_df) = 3
    /\ Len(lag_df_sunset) = 3
    /\ \E i \in 1..3 : lag_df[i].window_end # lag_df_sunset[i].window_end
    /\ \E i \in 1..3 : lag_df[i].max_butterflies_t_1 = 0

\* the 24hr pass found no pair and raised
C26_NoPairs ==
    /\ script = "dynamic" /\ pc = "exit" /\ error = "create_dynamic_lag_pairs"
    /\ Len(valid_days) >= 2

\* the two daily tables were computed from one set of classification files
VariantsReturned == pc = "return" /\ arg.fn = "daily_tables"

\* the (deployment, date) rows of a daily table, none when the run failed
DaysOfTable(t) ==
    IF t.status # "ok" THEN {}
    ELSE {[deployment_id |-> t.value[i].deployment_id, date |-> t.value[i].date,
           photo_count |-> t.value[i].photo_count,
           max_butterflies |-> t.value[i].max_butterflies,
           time_of_max |-> t.value[i].time_of_max] : i \in 1..Len(t.value)}

\* C27 as stated: for the same classification input the daily-lag and the
\* dynamic-window script aggregate the same daytime observations: the same
\* (deployment, date) rows with the same photo_count, max count and
\* time_of_max, a date in one output exactly when it is in the other.
C27_SameDailyTable ==
    VariantsReturned => DaysOfTable(ret.dynamic) = DaysOfTable(ret.daily)

\* C27 amended: the two tables agree whenever the ingestion of the
\* dynamic-window script completes, and whenever the daily-lag script
\* fails the dynamic-window script fails too; the dynamic-window script
\* alone parses the cells of night images and so fails alone on a
\* malformed count label of a night image.
C27_SameDailyTableUnlessNightLabel ==
    VariantsReturned =>
        /\ process_deployments(arg.json_dir).status = "ok"
              => DaysOfTable(ret.dynamic) = DaysOfTable(ret.daily)
        /\ ret.daily.status # "ok" => ret.dynamic.status # "ok"
        /\ DaysOfTable(ret.dynamic) # DaysOfTable(ret.daily)
              => /\ ret.dynamic.status = "ValueError"
                 /\ \E d \in Deployments :
                       \E img \in Extracted(Classifications(arg.json_dir, d)) :
                          /\ img.timestamp # NoStamp
                          /\ IsNightDynamic(d, img)
                          /\ ~_process_cells(img.cells).ok

\* both scripts produced a table of two days from files that hold night
\* images and off-cadence images next to the daytime ones
C27_Witness ==
    /\ VariantsReturned
    /\ ret.dynamic.status = "ok"
    /\ ret.daily.status = "ok"
    /\ Cardinality(DaysOfTable(ret.daily)) = 2
    /\ \E k \in DayKeys : arg.json_dir[k] = "dusk"
    /\ \E k \in DayKeys : arg.json_dir[k] = "dense"
    /\ \E i \in 1..Len(ret.dynamic.value) : ret.dynamic.value[i].photo_count > 1

\* the window of an emitted pair is not empty, starts on date_t_1 and lasts
\* lag_duration_hours
ProperWindow(r) ==
    /\ r.window_start < r.window_end
    /\ DateOf(r.window_start) = r.date_t_1
    /\ r.lag_duration_hours[1] > 0
    /\ r.lag_duration_hours = <<r.window_end - r.window_start, 3600>>

\* C28: every emitted dynamic-window pair has window_start strictly before
\* window_end in both modes: window_start falls on date_t_1, the sunset
\* window_end falls on date_t, and lag_duration_hours is positive and
\* exactly 24 in '24hr' mode.
C28_WindowsNotEmpty ==
    script = "dynamic" =>
        /\ \A i \in 1..Len(lag_df) :
              /\ ProperWindow(lag_df[i])
              /\ lag_df[i].lag_duration_hours = <<24 * 3600, 3600>>
        /\ \A i \in 1..Len(lag_df_sunset) :
              /\ ProperWindow(lag_df_sunset[i])
              /\ DateOf(lag_df_sunset[i].window_end) = lag_df_sunset[i].date_t

\* both passes emitted a pair, and a sunset window is longer than 24 hours
\* while another is not
C28_Witness ==
    /\ SunsetPassDone
    /\ Len(lag_df) >= 2
    /\ \E i \in 1..Len(lag_df_sunset) :
          lag_df_sunset[i].window_end - lag_df_sunset[i].window_start > Hours24
    /\ \E i \in 1..Len(lag_df_sunset) :
          lag_df_sunset[i].window_end - lag_df_sunset[i].window_start <= Hours24

\* number of observations of deployment d on the day of timestamp-date date
ObservationCount(df, d, date) ==
    Cardinality({i \in 1..Len(df) :
                    df[i].deployment_id = d /\ DateOf(df[i].timestamp) = date})

\* C29: in every script the temperature join either fails or returns one
\* row per butterfly observation: each (deployment, date) has as many
\* observations after the join as before, whatever rows (repeated
\* filenames included) the temperature file holds.
C29_JoinKeepsOneRowPerObservation ==
    pc = "return" /\ arg.fn \in {"add_temperature_data", "add_temperature_data_daily",
                                  "add_temperature_data_lag"}
        => \/ ret.status # "ok"
           \/ /\ Len(ret.merged_df) = Len(ret.butterfly_df)
              /\ \A d \in Deployments : \A date \in 0..MaxDays :
                    ObservationCount(ret.merged_df, d, date)
                        = ObservationCount(ret.butterfly_df, d, date)

\* the same for the 30-minute script alone, whose join checks for
\* duplicates
C29_LagScriptJoin ==
    arg.fn = "add_temperature_data_lag" => C29_JoinKeepsOneRowPerObservation

\* the 30-minute script refused a file with repeated filenames
C29_LagRefused ==
    /\ pc = "return" /\ arg.fn = "add_temperature_data_lag"
    /\ arg.temp_file = "repeated" /\ ret.butterfly_df # <<>>
    /\ ret.status = "ValueError"

\* create_lag_analysis returned its pairs
LagAnalysisReturned ==
    pc = "return" /\ arg.fn = "create_lag_analysis" /\ ret.status = "ok"

\* C30: every pair of create_lag_analysis joins two observations of the
\* same deployment and calendar day, its actual_lag_minutes lies within
\* lag_minutes -/+ tolerance_minutes, no current observation has two pairs,
\* and when tolerance_minutes < lag_minutes the lagged observation is
\* strictly earlier than the current one.
C30_LagPairs ==
    LagAnalysisReturned =>
        LET pairs == ret.value
        IN  /\ \A i \in 1..Len(pairs) :
                  LET r == pairs[i]
                  IN  /\ \E a, b \in 1..Len(arg.df) :
                            /\ arg.df[a].image_filename = r.image_filename_t
                            /\ arg.df[b].image_filename = r.image_filename_t_lag
                            /\ arg.df[a].timestamp = r.timestamp_t
                            /\ arg.df[b].timestamp = r.timestamp_t_lag
                            /\ arg.df[a].deployment_id = r.deployment_id
                            /\ arg.df[b].deployment_id = r.deployment_id
                      /\ DateOf(r.timestamp_t) = DateOf(r.timestamp_t_lag)
                      /\ r.actual_lag_minutes[2] = 60
                      /\ r.actual_lag_minutes[1] >= (arg.lag - arg.tolerance) * 60
                      /\ r.actual_lag_minutes[1] <= (arg.lag + arg.tolerance) * 60
                      /\ arg.tolerance < arg.lag =>
                            /\ r.timestamp_t_lag < r.timestamp_t
                            /\ r.image_filename_t_lag # r.image_filename_t
            /\ \A i, j \in 1..Len(pairs) :
                  pairs[i].image_filename_t = pairs[j].image_filename_t => i = j

\* with the default arguments two pairs were emitted, one of them 25 or 35
\* minutes apart, from a table that also holds two observations half an
\* hour apart across midnight and an observation of another deployment
C30_Witness ==
    /\ LagAnalysisReturned
    /\ arg.lag = 30 /\ arg.tolerance = 5
    /\ Len(ret.value) >= 2
    /\ \E i \in 1..Len(ret.value) : ret.value[i].actual_lag_minutes[1] # 30 * 60
    /\ \E a, b, c \in 1..Len(arg.df) :
          /\ arg.df[a].timestamp = At(0, 23, 45, 0)
          /\ arg.df[b].timestamp = At(1, 0, 15, 0)
          /\ arg.df[c].deployment_id = "SC3"

\* with a tolerance that is not below the lag an observation is paired
\* with itself
C30_SelfPair ==
    /\ LagAnalysisReturned
    /\ \E i \in 1..Len(ret.value) :
          ret.value[i].image_filename_t_lag = ret.value[i].image_filename_t


====
